---- MODULE Spec2Model ----
(***************************************************************************)
(* A model of the Terraria world-save decoder and renderer of              *)
(* src/src/handlers/canvasToBlob.ts: the byte cursor (TerrariaFileParser), *)
(* the world parser (TerrariaWorldParser: parseNecessaryData, parseHeader, *)
(* parseTileData, parseWorldTiles, parse) and the rasterizer               *)
(* (WldHandler.doConvert).                                                 *)
(*                                                                         *)
(* JavaScript values are modelled as follows.  A byte is 0..255.  The      *)
(* cursor's offset is a number or NaN/undefined: the record field nan is   *)
(* TRUE when it is not a number (offset is then kept 0 and not read).      *)
(* A thrown exception is the field thrown of the cursor record: once it    *)
(* is not "none" every later operation of the same call chain is skipped,  *)
(* which is how the exception unwinds the JavaScript stack.  An object     *)
(* with optional fields (a Tile, the header) is a function whose domain    *)
(* holds the fields that are present.                                      *)
(***************************************************************************)
EXTENDS Integers, Sequences, FiniteSets, TLC

VARIABLES
  buffer,    \* TerrariaFileParser.buffer: the bytes of the DataView
  options,   \* the parser's options object
  cursor,    \* offset, the progress hook's closure variables, a pending exception
  RLE,       \* TerrariaFileParser.RLE: the pending run count
  world,     \* TerrariaWorldParser.world: the preamble (WorldNecessary)
  pc,        \* where the call of parse (or doConvert) stands
  data,      \* parse: the result object under construction
  grid,      \* parseWorldTiles: its local array data, one column per x
  x, y,      \* parseWorldTiles / doConvert: the loop indices
  img,       \* doConvert: the pixels written so far, by byte index
  result,    \* what parse returned to its caller, once it has
  rec,       \* observation: the last tile record decoded (flags, run count, reads)
  last       \* observation: the last cursor operation (kind, offsets, outcome, value)

vars == <<buffer, options, cursor, RLE, world, pc, data, grid, x, y, img, result, rec, last>>

(***************************************************************************)
(* Bounds of the model.                                                    *)
(***************************************************************************)
MaxBuf == 9          \* longest buffer of the cursor specification
MaxSeek == 10        \* largest offset the cursor specification seeks to

(***************************************************************************)
(* Arithmetic helpers.                                                     *)
(***************************************************************************)
\* Bit k of n >= 0:  (n & (1 << k)) > 0
Bit(n, k) == (n \div (2 ^ k)) % 2

Max(a, b) == IF a >= b THEN a ELSE b

\* An object with no field.
Empty == [f \in {} |-> 0]
\* obj.f = v
Set(obj, f, v) == (f :> v) @@ obj
Has(obj, f) == f \in DOMAIN obj

(***************************************************************************)
(* The byte cursor: TerrariaFileParser.                                    *)
(***************************************************************************)
\* A fresh parser object: offset = 0, no accessor installed, nothing thrown.
NewCursor ==
  [offset |-> 0, nan |-> FALSE, hooked |-> FALSE, onePercentSize |-> 0,
   nextPercentSize |-> 0, percent |-> 0, calls |-> <<>>, thrown |-> "none",
   reads |-> <<>>]

byteLength == Len(buffer)

\* A variant of SetOffset whose setter does not store the value when it reports.
SetOffsetLostOnReport(c, v, isNaN) ==
  IF c.hooked /\ ~isNaN /\ v >= c.nextPercentSize
  THEN [c EXCEPT !.percent = c.percent + 1,
                 !.nextPercentSize = c.nextPercentSize + c.onePercentSize,
                 !.calls = Append(c.calls, c.percent + 1)]
  ELSE [c EXCEPT !.offset = IF isNaN THEN 0 ELSE v, !.nan = isNaN]

\* An assignment to this.offset.  Without the accessor parse installs it is a
\* plain field write; with it the setter runs (it compares, counts and calls back).
\* NaN >= n and undefined >= n are false.
SetOffset(c, v, isNaN) ==
  LET w == [c EXCEPT !.offset = IF isNaN THEN 0 ELSE v, !.nan = isNaN]
  IN IF ~c.hooked THEN w
     ELSE IF ~isNaN /\ v >= c.nextPercentSize
          THEN [w EXCEPT !.percent = c.percent + 1,
                         !.nextPercentSize = c.nextPercentSize + c.onePercentSize,
                         !.calls = Append(c.calls, c.percent + 1)]
          ELSE w

\* this.offset += n  (undefined + n and NaN + n are NaN)
Advance(c, n) == SetOffset(c, c.offset + n, c.nan)

\* A variant of Lenient in which lenient mode is the default.
LenientByDefault(c) == ~c.nan /\ c.offset > byteLength

\* ignoreBounds && this.offset > this.buffer.byteLength  (NaN > n is false)
Lenient(c) == options.ignoreBounds /\ ~c.nan /\ c.offset > byteLength

\* The index DataView.getXxx is called with, this.offset - w: ToIndex(NaN) is 0.
ViewIndex(c, w) == IF c.nan THEN 0 ELSE c.offset - w

\* DataView.getXxx(index) throws a RangeError unless 0 <= index and
\* index + w <= byteLength.
InView(c, w) == ViewIndex(c, w) >= 0 /\ ViewIndex(c, w) + w <= byteLength

\* The w bytes at the view index, in buffer order.
ViewBytes(c, w) == [i \in 1..w |-> buffer[ViewIndex(c, w) + i]]

\* The read is noted in the log of reads (an observation, not program state).
Noted(c, c1, w) ==
  [c1 EXCEPT !.reads = Append(c.reads, [at |-> c.offset, nan |-> c.nan, w |-> w])]

\* A variant of ReadRaw that restores the offset when the DataView read throws.
ReadRawRollback(c, w) ==
  IF c.thrown # "none" THEN [c |-> c, bytes |-> <<>>, outcome |-> "skipped"]
  ELSE LET c1 == Noted(c, Advance(c, w), w)
       IN IF Lenient(c1) THEN [c |-> c1, bytes |-> <<>>, outcome |-> "zero"]
          ELSE IF InView(c1, w)
               THEN [c |-> c1, bytes |-> ViewBytes(c1, w), outcome |-> "ok"]
               ELSE [c |-> [c EXCEPT !.thrown = "RangeError"], bytes |-> <<>>,
                     outcome |-> "throw"]

\* The DataView read at the advanced cursor c1: the lenient zero, else the w
\* bytes, else the RangeError (the offset stays advanced).
Fetch(c1, w) ==
  IF Lenient(c1) THEN [c |-> c1, bytes |-> <<>>, outcome |-> "zero"]
  ELSE IF InView(c1, w) THEN [c |-> c1, bytes |-> ViewBytes(c1, w), outcome |-> "ok"]
  ELSE [c |-> [c1 EXCEPT !.thrown = "RangeError"], bytes |-> <<>>, outcome |-> "throw"]

\* The common shape of readUInt8 .. readFloat64: advance by the width, then the
\* lenient zero, then the DataView read, which may throw.
ReadRaw(c, w) ==
  IF c.thrown # "none" THEN [c |-> c, bytes |-> <<>>, outcome |-> "skipped"]
  ELSE Fetch(Noted(c, Advance(c, w), w), w)

\* DataView.getXxx on the bytes b, little-endian.  Signed values are folded so
\* that no intermediate result leaves the 32-bit range; an unsigned 32-bit value
\* is <<high 16 bits, low 16 bits>>; a float is its IEEE-754 bit pattern, most
\* significant byte first.
Decode(type, b) ==
  CASE type = "UInt8" -> b[1]
    [] type = "UInt16" -> b[1] + 256 * b[2]
    [] type = "Int16" -> b[1] + 256 * (IF b[2] >= 128 THEN b[2] - 256 ELSE b[2])
    [] type = "Int32" -> b[1] + 256 * b[2] + 65536 * b[3]
                         + 16777216 * (IF b[4] >= 128 THEN b[4] - 256 ELSE b[4])
    [] type = "UInt32" -> <<b[3] + 256 * b[4], b[1] + 256 * b[2]>>
    [] type = "Float32" -> <<b[4], b[3], b[2], b[1]>>
    [] type = "Float64" -> <<b[8], b[7], b[6], b[5], b[4], b[3], b[2], b[1]>>

\* The value a read returns: the decoded bytes, or 0 in the lenient case (and
\* as a placeholder when the read threw and returned nothing).
Typed(r, type) ==
  [c |-> r.c, outcome |-> r.outcome,
   v |-> IF r.outcome = "ok" THEN Decode(type, r.bytes) ELSE 0]
\* !!value
Truthy(r) == [c |-> r.c, outcome |-> r.outcome, v |-> r.v # 0]

readUInt8(c) == Typed(ReadRaw(c, 1), "UInt8")
readInt16(c) == Typed(ReadRaw(c, 2), "Int16")
readUInt16(c) == Typed(ReadRaw(c, 2), "UInt16")
readInt32(c) == Typed(ReadRaw(c, 4), "Int32")
readUInt32(c) == Typed(ReadRaw(c, 4), "UInt32")
readFloat32(c) == Typed(ReadRaw(c, 4), "Float32")
readFloat64(c) == Typed(ReadRaw(c, 8), "Float64")
readBoolean(c) == Truthy(readUInt8(c))

skipBytes(c, count) == IF c.thrown # "none" THEN c ELSE Advance(c, count)
jumpTo(c, offset, isNaN) == IF c.thrown # "none" THEN c ELSE SetOffset(c, offset, isNaN)

(***************************************************************************)
(* readBytes, readString, parseBitsByte, parseGuid.                        *)
(***************************************************************************)
\* for (i = 0; i < count; i++) data[i] = readUInt8()
\* count elements are read as two runs, the first count \div 2 and the rest;
\* a run stops at the read that throws.
One(r) == [c |-> r.c, v |-> <<r.v>>]
Joined(first, rest) == [c |-> rest.c, v |-> first.v \o rest.v]

RECURSIVE readBytes(_, _)
RECURSIVE readBytesAfter(_, _)
readBytes(c, count) ==
  IF count <= 0 \/ c.thrown # "none" THEN [c |-> c, v |-> <<>>]
  ELSE IF count = 1 THEN One(readUInt8(c))
  ELSE readBytesAfter(readBytes(c, count \div 2), count - count \div 2)
readBytesAfter(first, count) == Joined(first, readBytes(first.c, count))

\* Bit k of the 32-bit two's complement pattern of the signed a.
SBit(a, k) ==
  IF k = 31 THEN (IF a < 0 THEN 1 ELSE 0)
  ELSE IF a < 0 THEN Bit(a + 2147483647 + 1, k) ELSE Bit(a, k)

\* The signed value of bit k alone.
BitWeight(k) == IF k = 31 THEN -2147483647 - 1 ELSE 2 ^ k

\* length | ((byte & 127) << shift) on 32-bit integers: the shift count is
\* taken modulo 32 and bits shifted past bit 31 are lost.  ShiftedBit is what
\* bit j of the group adds to length.
ShiftedBit(length, group, s, j) ==
  IF s + j <= 31 /\ Bit(group, j) = 1 /\ SBit(length, s + j) = 0
  THEN BitWeight(s + j) ELSE 0
OrShifted(length, group, s) ==
  length + ShiftedBit(length, group, s, 0) + ShiftedBit(length, group, s, 1)
         + ShiftedBit(length, group, s, 2) + ShiftedBit(length, group, s, 3)
         + ShiftedBit(length, group, s, 4) + ShiftedBit(length, group, s, 5)
         + ShiftedBit(length, group, s, 6)
\* do { byte = readUInt8(); length |= (byte & 127) << shift; shift += 7 }
\* while (byte & 128).  At an offset that is NaN every read returns byte 0 of
\* the buffer, so with its high bit set the loop never ends: thrown = "hang".
RECURSIVE readLength(_, _, _)
RECURSIVE readLengthByte(_, _, _)
readLength(c, length, shift) == readLengthByte(readUInt8(c), length, shift)
\* The body after byte = readUInt8() returned r.
readLengthByte(r, length, shift) ==
  IF r.c.thrown # "none" THEN [c |-> r.c, v |-> 0]
  ELSE IF r.v < 128 THEN [c |-> r.c, v |-> OrShifted(length, r.v % 128, shift % 32)]
  ELSE IF r.c.nan THEN [c |-> [r.c EXCEPT !.thrown = "hang"], v |-> 0]
  ELSE readLength(r.c, OrShifted(length, r.v % 128, shift % 32), shift + 7)

\* new TextDecoder().decode(bytes), as code points: a leading byte order mark
\* is dropped, an ASCII byte is its own code point, and a byte >= 128 is taken
\* as a malformed sequence (U+FFFD); well-formed multi-byte sequences, which
\* decode to one code point >= 128, are not told apart from malformed ones.
TextDecode(bytes) ==
  LET body == IF Len(bytes) >= 3 /\ SubSeq(bytes, 1, 3) = <<239, 187, 191>>
              THEN SubSeq(bytes, 4, Len(bytes)) ELSE bytes
  IN [i \in 1..Len(body) |-> IF body[i] < 128 THEN body[i] ELSE 65533]

\* readString(length) with a length, and readString() without one.
Decoded(r) == [c |-> r.c, v |-> TextDecode(r.v)]
readStringN(c, length) == Decoded(readBytes(c, length))

readStringOf(n) == readStringN(n.c, n.v)
readString(c) == readStringOf(readLength(c, 0, 0))

\* A variant of BitsOf that takes the bits most significant first.
BitsOfMsbFirst(r, size) ==
  [c |-> r.c,
   v |-> IF r.c.thrown # "none" THEN <<>>
         ELSE [i \in 1..Max(size, 0) |-> Bit(r.v[((i - 1) \div 8) + 1], 7 - ((i - 1) % 8)) = 1]]

\* for (i = size; i > 0; i -= 8) bytes.push(readUInt8()), then bit i of the
\* result is bit i % 8 of byte floor(i / 8).
BitsOf(r, size) ==
  [c |-> r.c,
   v |-> IF r.c.thrown # "none" THEN <<>>
         ELSE [i \in 1..Max(size, 0) |-> Bit(r.v[((i - 1) \div 8) + 1], (i - 1) % 8) = 1]]
parseBitsByte(c, size) == BitsOf(readBytes(c, IF size > 0 THEN (size + 7) \div 8 ELSE 0), size)

\* parseGuid: the bytes regrouped (4, 2 and 2 reversed, then the rest), each
\* byte standing for its two hexadecimal digits, -1 for a "-" (which the code
\* appends after the bytes at positions 4, 6, 8 and 10 of the regrouped list).
RECURSIVE Reverse(_)
Reverse(s) == IF s = <<>> THEN <<>> ELSE Append(Reverse(Tail(s)), Head(s))

RECURSIVE WithDashes(_, _)
WithDashes(b, i) ==
  IF i > Len(b) THEN <<>>
  ELSE (IF (i - 1) \in {4, 6, 8, 10} THEN <<b[i], -1>> ELSE <<b[i]>>) \o WithDashes(b, i + 1)

parseGuid(bytes) ==
  LET n == Len(bytes)
      part(a, z) == IF a > n THEN <<>> ELSE SubSeq(bytes, a, IF z > n THEN n ELSE z)
      b == Reverse(part(1, 4)) \o Reverse(part(5, 6)) \o Reverse(part(7, 8)) \o part(9, n)
  IN WithDashes(b, 1)
(***************************************************************************)
(* Runs of reads.  parseNecessaryData and parseHeader are each one linear  *)
(* pass of reads in source order; a pass is written as the list of its     *)
(* reads, <<name, how it is read, a size, its version gate, the gate's     *)
(* threshold>>.  The gates are                                             *)
(*   "all"          no gate                                                *)
(*   "ge"           if (version >= threshold) data.name = read             *)
(*   "lt"           the else branch of if (version >= threshold)           *)
(*   "geElseFalse"  data.name = version >= threshold ? read : false        *)
(***************************************************************************)
FieldName(f) == f[1]
FieldKind(f) == f[2]
FieldSize(f) == f[3]
FieldGate(f) == f[4]
FieldThreshold(f) == f[5]

\* Whether the field is read from the stream at this structural version.
GateOpen(f, version) ==
  \/ FieldGate(f) = "all"
  \/ FieldGate(f) \in {"ge", "geElseFalse"} /\ version >= FieldThreshold(f)
  \/ FieldGate(f) = "lt" /\ version < FieldThreshold(f)

\* for (i = count; i > 0; i--) push(readInt32())
RECURSIVE readInt32s(_, _)
RECURSIVE readInt32sAfter(_, _)
readInt32s(c, count) ==
  IF count <= 0 \/ c.thrown # "none" THEN [c |-> c, v |-> <<>>]
  ELSE IF count = 1 THEN One(readInt32(c))
  ELSE readInt32sAfter(readInt32s(c, count \div 2), count - count \div 2)
readInt32sAfter(first, count) == Joined(first, readInt32s(first.c, count))

\* for (i = count; i > 0; i--) push(readString())
RECURSIVE readStrings(_, _)
RECURSIVE readStringsAfter(_, _)
readStrings(c, count) ==
  IF count <= 0 \/ c.thrown # "none" THEN [c |-> c, v |-> <<>>]
  ELSE IF count = 1 THEN One(readString(c))
  ELSE readStringsAfter(readStrings(c, count \div 2), count - count \div 2)
readStringsAfter(first, count) == Joined(first, readStrings(first.c, count))

\* A variant of readInt32sOf that reads one element more than the count.
readInt32sOneMore(n) == readInt32s(n.c, n.v + 1)

\* The loops above with the count n just read.
readInt32sOf(n) == readInt32s(n.c, n.v)
readStringsOf(n) == readStrings(n.c, n.v)
parseBitsByteOf(n) == parseBitsByte(n.c, n.v)

\* The reads of one field; d is what the pass decoded so far (parseGuid reads it).
ReadField(c, f, d) ==
  CASE FieldKind(f) = "str" -> readString(c)
    [] FieldKind(f) = "strN" -> readStringN(c, FieldSize(f))
    [] FieldKind(f) = "skip" -> [c |-> skipBytes(c, FieldSize(f)), v |-> 0]
    [] FieldKind(f) = "bytes" -> readBytes(c, FieldSize(f))
    [] FieldKind(f) = "guid" ->
         [c |-> c, v |-> IF Has(d, "guid") THEN parseGuid(d["guid"]) ELSE <<>>]
    [] FieldKind(f) = "i32" -> readInt32(c)
    [] FieldKind(f) = "i16" -> readInt16(c)
    [] FieldKind(f) = "u8" -> readUInt8(c)
    [] FieldKind(f) = "bool" -> readBoolean(c)
    [] FieldKind(f) = "f32" -> readFloat32(c)
    [] FieldKind(f) = "f64" -> readFloat64(c)
    [] FieldKind(f) = "i32x" -> readInt32s(c, FieldSize(f))
    [] FieldKind(f) = "strs32" -> readStringsOf(readInt32(c))
    [] FieldKind(f) = "i32s32" -> readInt32sOf(readInt32(c))
    [] FieldKind(f) = "i32s16" -> readInt32sOf(readInt16(c))
    [] FieldKind(f) = "bits16" -> parseBitsByteOf(readInt16(c))

\* data.name = the value read
Store(s, name, r) == [c |-> r.c, v |-> Set(s.v, name, r.v)]

\* One field of a pass: a gated field is read only when its gate is open; s
\* holds the cursor and what the pass decoded so far.
parseField(s, f, version) ==
  IF GateOpen(f, version) THEN Store(s, FieldName(f), ReadField(s.c, f, s.v))
  ELSE IF FieldGate(f) = "geElseFalse" THEN [c |-> s.c, v |-> Set(s.v, FieldName(f), FALSE)]
  ELSE s

\* The fields lo..hi of a pass in source order, stopping at the first read
\* that throws.
RECURSIVE parseFields(_, _, _, _, _)
parseFields(s, fields, version, lo, hi) ==
  IF s.c.thrown # "none" \/ lo > hi THEN s
  ELSE IF lo = hi THEN parseField(s, fields[lo], version)
  ELSE parseFields(parseFields(s, fields, version, lo, (lo + hi) \div 2),
                   fields, version, ((lo + hi) \div 2) + 1, hi)

(***************************************************************************)
(* TerrariaWorldParser.parseNecessaryData: the preamble.                   *)
(***************************************************************************)
MinVersion == 194
WorldFileType == 2
\* "relogic"
Relogic == <<114, 101, 108, 111, 103, 105, 99>>

InvalidFileType == "Invalid file type"
VersionTooOld == "Map version is older than 1.3.5.3 and cannot be parsed"

\* this.world before parse has assigned it.
NoWorld == [version |-> 0, pointers |-> <<>>, importants |-> <<>>, width |-> 0, height |-> 0]

\* The reads of the try block, in order; the skips and the two strings read
\* and dropped carry the names skip12, title, seed and skip44.
PreambleFields ==
  << <<"version", "i32", 0, "all", 0>>,
     <<"magicNumber", "strN", 7, "all", 0>>,
     <<"fileType", "u8", 0, "all", 0>>,
     <<"skip12", "skip", 12, "all", 0>>,
     <<"pointers", "i32s16", 0, "all", 0>>,
     <<"importants", "bits16", 0, "all", 0>>,
     <<"title", "str", 0, "all", 0>>,
     <<"seed", "str", 0, "all", 0>>,
     <<"skip44", "skip", 44, "all", 0>>,
     <<"height", "i32", 0, "all", 0>>,
     <<"width", "i32", 0, "all", 0>> >>

PreambleReads(c) ==
  parseFields([c |-> c, v |-> Empty], PreambleFields, 0, 1, Len(PreambleFields))

Failed(c, e) == [c |-> [c EXCEPT !.thrown = e], world |-> NoWorld]

\* A variant of Necessary that leaves the offset where the reads ended.
NecessaryNoReset(p) ==
  IF p.v["magicNumber"] # Relogic \/ p.v["fileType"] # WorldFileType
  THEN Failed(p.c, InvalidFileType)
  ELSE IF p.v["version"] < MinVersion THEN Failed(p.c, VersionTooOld)
  ELSE [c |-> p.c,
        world |-> [version |-> p.v["version"], pointers |-> <<0>> \o p.v["pointers"],
                   importants |-> p.v["importants"], width |-> p.v["width"],
                   height |-> p.v["height"]]]

\* this.offset = 0, then the two checks on what the reads p returned, then the
\* return value; pointers = [0] followed by the pointers read.
Necessary(p) ==
  IF p.v["magicNumber"] # Relogic \/ p.v["fileType"] # WorldFileType
  THEN Failed(SetOffset(p.c, 0, FALSE), InvalidFileType)
  ELSE IF p.v["version"] < MinVersion THEN Failed(SetOffset(p.c, 0, FALSE), VersionTooOld)
  ELSE [c |-> SetOffset(p.c, 0, FALSE),
        world |-> [version |-> p.v["version"], pointers |-> <<0>> \o p.v["pointers"],
                   importants |-> p.v["importants"], width |-> p.v["width"],
                   height |-> p.v["height"]]]

\* A variant of TryReads without the try and catch around the reads.
TryReadsNoCatch(p) ==
  IF p.c.thrown # "none" THEN Failed(p.c, p.c.thrown) ELSE Necessary(p)

\* try { the reads } catch { throw "Invalid file type" }
TryReads(p) ==
  IF p.c.thrown = "hang" THEN Failed(p.c, "hang")
  ELSE IF p.c.thrown # "none" THEN Failed(p.c, InvalidFileType)
  ELSE Necessary(p)

\* offset = 0; try { the reads } catch { throw "Invalid file type" }; offset = 0;
\* then the identity check, then the version check.
parseNecessaryData(c) == TryReads(PreambleReads(SetOffset(c, 0, FALSE)))
(***************************************************************************)
(* TerrariaWorldParser.parseHeader.                                        *)
(***************************************************************************)
HeaderFields ==
  << <<"mapName", "str", 0, "all", 0>>,
     <<"seedText", "str", 0, "all", 0>>,
     <<"worldGeneratorVersion", "bytes", 8, "all", 0>>,
     <<"guid", "bytes", 16, "all", 0>>,
     <<"guidString", "guid", 0, "all", 0>>,
     <<"worldId", "i32", 0, "all", 0>>,
     <<"leftWorld", "i32", 0, "all", 0>>,
     <<"rightWorld", "i32", 0, "all", 0>>,
     <<"topWorld", "i32", 0, "all", 0>>,
     <<"bottomWorld", "i32", 0, "all", 0>>,
     <<"maxTilesY", "i32", 0, "all", 0>>,
     <<"maxTilesX", "i32", 0, "all", 0>>,
     <<"gameMode", "i32", 0, "ge", 225>>,
     <<"drunkWorld", "bool", 0, "ge", 225>>,
     <<"getGoodWorld", "bool", 0, "ge", 227>>,
     <<"getTenthAnniversaryWorld", "bool", 0, "ge", 238>>,
     <<"dontStarveWorld", "bool", 0, "ge", 239>>,
     <<"notTheBeesWorld", "bool", 0, "ge", 241>>,
     <<"remixWorld", "bool", 0, "ge", 249>>,
     <<"noTrapsWorld", "bool", 0, "ge", 266>>,
     <<"zenithWorld", "bool", 0, "ge", 267>>,
     <<"expertMode", "bool", 0, "lt", 225>>,
     <<"creationTime", "bytes", 8, "all", 0>>,
     <<"moonType", "u8", 0, "all", 0>>,
     <<"treeX", "i32x", 3, "all", 0>>,
     <<"treeStyle", "i32x", 4, "all", 0>>,
     <<"caveBackX", "i32x", 3, "all", 0>>,
     <<"caveBackStyle", "i32x", 4, "all", 0>>,
     <<"iceBackStyle", "i32", 0, "all", 0>>,
     <<"jungleBackStyle", "i32", 0, "all", 0>>,
     <<"hellBackStyle", "i32", 0, "all", 0>>,
     <<"spawnTileX", "i32", 0, "all", 0>>,
     <<"spawnTileY", "i32", 0, "all", 0>>,
     <<"worldSurface", "f64", 0, "all", 0>>,
     <<"rockLayer", "f64", 0, "all", 0>>,
     <<"tempTime", "f64", 0, "all", 0>>,
     <<"tempDayTime", "bool", 0, "all", 0>>,
     <<"tempMoonPhase", "i32", 0, "all", 0>>,
     <<"tempBloodMoon", "bool", 0, "all", 0>>,
     <<"tempEclipse", "bool", 0, "all", 0>>,
     <<"dungeonX", "i32", 0, "all", 0>>,
     <<"dungeonY", "i32", 0, "all", 0>>,
     <<"crimson", "bool", 0, "all", 0>>,
     <<"downedBoss1", "bool", 0, "all", 0>>,
     <<"downedBoss2", "bool", 0, "all", 0>>,
     <<"downedBoss3", "bool", 0, "all", 0>>,
     <<"downedQueenBee", "bool", 0, "all", 0>>,
     <<"downedMechBoss1", "bool", 0, "all", 0>>,
     <<"downedMechBoss2", "bool", 0, "all", 0>>,
     <<"downedMechBoss3", "bool", 0, "all", 0>>,
     <<"downedMechBossAny", "bool", 0, "all", 0>>,
     <<"downedPlantBoss", "bool", 0, "all", 0>>,
     <<"downedGolemBoss", "bool", 0, "all", 0>>,
     <<"downedSlimeKing", "bool", 0, "all", 0>>,
     <<"savedGoblin", "bool", 0, "all", 0>>,
     <<"savedWizard", "bool", 0, "all", 0>>,
     <<"savedMech", "bool", 0, "all", 0>>,
     <<"downedGoblins", "bool", 0, "all", 0>>,
     <<"downedClown", "bool", 0, "all", 0>>,
     <<"downedFrost", "bool", 0, "all", 0>>,
     <<"downedPirates", "bool", 0, "all", 0>>,
     <<"shadowOrbSmashed", "bool", 0, "all", 0>>,
     <<"spawnMeteor", "bool", 0, "all", 0>>,
     <<"shadowOrbCount", "u8", 0, "all", 0>>,
     <<"altarCount", "i32", 0, "all", 0>>,
     <<"hardMode", "bool", 0, "all", 0>>,
     <<"afterPartyOfDoom", "bool", 0, "geElseFalse", 257>>,
     <<"invasionDelay", "i32", 0, "all", 0>>,
     <<"invasionSize", "i32", 0, "all", 0>>,
     <<"invasionType", "i32", 0, "all", 0>>,
     <<"invasionX", "f64", 0, "all", 0>>,
     <<"slimeRainTime", "f64", 0, "all", 0>>,
     <<"sundialCooldown", "u8", 0, "all", 0>>,
     <<"tempRaining", "bool", 0, "all", 0>>,
     <<"tempRainTime", "i32", 0, "all", 0>>,
     <<"tempMaxRain", "f32", 0, "all", 0>>,
     <<"oreTier1", "i32", 0, "all", 0>>,
     <<"oreTier2", "i32", 0, "all", 0>>,
     <<"oreTier3", "i32", 0, "all", 0>>,
     <<"setBG0", "u8", 0, "all", 0>>,
     <<"setBG1", "u8", 0, "all", 0>>,
     <<"setBG2", "u8", 0, "all", 0>>,
     <<"setBG3", "u8", 0, "all", 0>>,
     <<"setBG4", "u8", 0, "all", 0>>,
     <<"setBG5", "u8", 0, "all", 0>>,
     <<"setBG6", "u8", 0, "all", 0>>,
     <<"setBG7", "u8", 0, "all", 0>>,
     <<"cloudBGActive", "i32", 0, "all", 0>>,
     <<"numClouds", "i16", 0, "all", 0>>,
     <<"windSpeed", "f32", 0, "all", 0>>,
     <<"anglerWhoFinishedToday", "strs32", 0, "all", 0>>,
     <<"savedAngler", "bool", 0, "all", 0>>,
     <<"anglerQuest", "i32", 0, "all", 0>>,
     <<"savedStylist", "bool", 0, "all", 0>>,
     <<"savedTaxCollector", "bool", 0, "all", 0>>,
     <<"savedGolfer", "bool", 0, "ge", 225>>,
     <<"invasionSizeStart", "i32", 0, "all", 0>>,
     <<"tempCultistDelay", "i32", 0, "all", 0>>,
     <<"killCount", "i32s16", 0, "all", 0>>,
     <<"fastForwardTimeToDawn", "bool", 0, "all", 0>>,
     <<"downedFishron", "bool", 0, "all", 0>>,
     <<"downedMartians", "bool", 0, "all", 0>>,
     <<"downedAncientCultist", "bool", 0, "all", 0>>,
     <<"downedMoonlord", "bool", 0, "all", 0>>,
     <<"downedHalloweenKing", "bool", 0, "all", 0>>,
     <<"downedHalloweenTree", "bool", 0, "all", 0>>,
     <<"downedChristmasIceQueen", "bool", 0, "all", 0>>,
     <<"downedChristmasSantank", "bool", 0, "all", 0>>,
     <<"downedChristmasTree", "bool", 0, "all", 0>>,
     <<"downedTowerSolar", "bool", 0, "all", 0>>,
     <<"downedTowerVortex", "bool", 0, "all", 0>>,
     <<"downedTowerNebula", "bool", 0, "all", 0>>,
     <<"downedTowerStardust", "bool", 0, "all", 0>>,
     <<"TowerActiveSolar", "bool", 0, "all", 0>>,
     <<"TowerActiveVortex", "bool", 0, "all", 0>>,
     <<"TowerActiveNebula", "bool", 0, "all", 0>>,
     <<"TowerActiveStardust", "bool", 0, "all", 0>>,
     <<"LunarApocalypseIsUp", "bool", 0, "all", 0>>,
     <<"tempPartyManual", "bool", 0, "all", 0>>,
     <<"tempPartyGenuine", "bool", 0, "all", 0>>,
     <<"tempPartyCooldown", "i32", 0, "all", 0>>,
     <<"tempPartyCelebratingNPCs", "i32s32", 0, "all", 0>>,
     <<"Temp_Sandstorm_Happening", "bool", 0, "all", 0>>,
     <<"Temp_Sandstorm_TimeLeft", "i32", 0, "all", 0>>,
     <<"Temp_Sandstorm_Severity", "f32", 0, "all", 0>>,
     <<"Temp_Sandstorm_IntendedSeverity", "f32", 0, "all", 0>>,
     <<"savedBartender", "bool", 0, "all", 0>>,
     <<"DD2Event_DownedInvasionT1", "bool", 0, "all", 0>>,
     <<"DD2Event_DownedInvasionT2", "bool", 0, "all", 0>>,
     <<"DD2Event_DownedInvasionT3", "bool", 0, "all", 0>>,
     <<"setBG8", "u8", 0, "ge", 225>>,
     <<"setBG9", "u8", 0, "ge", 225>>,
     <<"setBG10", "u8", 0, "ge", 225>>,
     <<"setBG11", "u8", 0, "ge", 225>>,
     <<"setBG12", "u8", 0, "ge", 225>>,
     <<"combatBookWasUsed", "bool", 0, "ge", 225>>,
     <<"lanternNightCooldown", "i32", 0, "ge", 225>>,
     <<"lanternNightGenuine", "bool", 0, "ge", 225>>,
     <<"lanternNightManual", "bool", 0, "ge", 225>>,
     <<"lanternNightNextNightIsGenuine", "bool", 0, "ge", 225>>,
     <<"treeTopsVariations", "i32s32", 0, "ge", 225>>,
     <<"forceHalloweenForToday", "bool", 0, "ge", 225>>,
     <<"forceXMasForToday", "bool", 0, "ge", 225>>,
     <<"savedOreTierCopper", "i32", 0, "ge", 225>>,
     <<"savedOreTierIron", "i32", 0, "ge", 225>>,
     <<"savedOreTierSilver", "i32", 0, "ge", 225>>,
     <<"savedOreTierGold", "i32", 0, "ge", 225>>,
     <<"boughtCat", "bool", 0, "ge", 225>>,
     <<"boughtDog", "bool", 0, "ge", 225>>,
     <<"boughtBunny", "bool", 0, "ge", 225>>,
     <<"downedEmpressOfLight", "bool", 0, "ge", 225>>,
     <<"downedQueenSlime", "bool", 0, "ge", 225>>,
     <<"downedDeerclops", "bool", 0, "ge", 240>>,
     <<"unlockedSlimeBlueSpawn", "bool", 0, "ge", 269>>,
     <<"unlockedMerchantSpawn", "bool", 0, "ge", 269>>,
     <<"unlockedDemolitionistSpawn", "bool", 0, "ge", 269>>,
     <<"unlockedPartyGirlSpawn", "bool", 0, "ge", 269>>,
     <<"unlockedDyeTraderSpawn", "bool", 0, "ge", 269>>,
     <<"unlockedTruffleSpawn", "bool", 0, "ge", 269>>,
     <<"unlockedArmsDealerSpawn", "bool", 0, "ge", 269>>,
     <<"unlockedNurseSpawn", "bool", 0, "ge", 269>>,
     <<"unlockedPrincessSpawn", "bool", 0, "ge", 269>>,
     <<"combatBookVolumeTwoWasUsed", "bool", 0, "ge", 269>>,
     <<"peddlersSatchelWasUsed", "bool", 0, "ge", 269>>,
     <<"unlockedSlimeGreenSpawn", "bool", 0, "ge", 269>>,
     <<"unlockedSlimeOldSpawn", "bool", 0, "ge", 269>>,
     <<"unlockedSlimePurpleSpawn", "bool", 0, "ge", 269>>,
     <<"unlockedSlimeRainbowSpawn", "bool", 0, "ge", 269>>,
     <<"unlockedSlimeRedSpawn", "bool", 0, "ge", 269>>,
     <<"unlockedSlimeYellowSpawn", "bool", 0, "ge", 269>>,
     <<"unlockedSlimeCopperSpawn", "bool", 0, "ge", 269>>,
     <<"fastForwardTimeToDusk", "bool", 0, "ge", 269>>,
     <<"moondialCooldown", "u8", 0, "ge", 269>> >>

parseHeader(c, version) ==
  parseFields([c |-> c, v |-> Empty], HeaderFields, version, 1, Len(HeaderFields))
(***************************************************************************)
(* TerrariaWorldParser.parseTileData: one tile record.  The record is      *)
(* decoded by a chain of steps over s = [c, tile, flags, importants, RLE,  *)
(* ran]: the cursor, the tile object, the flag bytes, world.importants,    *)
(* this.RLE and whether the record carried a run count.                    *)
(***************************************************************************)
FrameYZeroBlock == 144

\* case 1 / 2 / 3 of the two liquid bits, without the shimmer override.
LiquidName(k) == CASE k = 1 -> "water" [] k = 2 -> "lava" [] OTHER -> "honey"
SlopeName(k) ==
  CASE k = 1 -> "half" [] k = 2 -> "TR" [] k = 3 -> "TL" [] k = 4 -> "BR" [] OTHER -> "BL"

\* flags1 = readUInt8(): fl.flags holds the flag bytes read so far.
Flags1(r) == [c |-> r.c, flags |-> <<r.v>>]
NextFlag(fl, r) == [c |-> r.c, flags |-> Append(fl.flags, r.v)]

\* if (flags_k & 1) flags_k+1 = readUInt8(), nested in the ifs before it.
FlagAfter(fl, k) ==
  IF Len(fl.flags) = k /\ Bit(fl.flags[k], 0) = 1 THEN NextFlag(fl, readUInt8(fl.c)) ELSE fl

\* A variant of FlagChain that reads flags2 whenever flags1 is not 0.
FlagChainAnyBit(c) ==
  FlagAfter(FlagAfter(LET fl == Flags1(readUInt8(c))
                      IN IF fl.flags[1] # 0 THEN NextFlag(fl, readUInt8(fl.c)) ELSE fl,
                      2), 3)

\* The flag chain: flags1, then flags2 if (flags1 & 1), then flags3 if
\* (flags2 & 1), then flags4 if (flags3 & 1).
FlagChain(c) == FlagAfter(FlagAfter(FlagAfter(Flags1(readUInt8(c)), 1), 2), 3)

\* const tile = {}, with the flags read.
NewTile(fl, importants, rle) ==
  [c |-> fl.c, tile |-> Empty, flags |-> fl.flags, importants |-> importants,
   RLE |-> rle, ran |-> FALSE]

\* flags1 .. flags4; one that was not read is undefined, written 0 (both are
\* falsy and have no bit set).
Flag(s, k) == IF k <= Len(s.flags) THEN s.flags[k] ELSE 0

\* tile.f = v, and tile.f = a read
Assign(s, f, v) == [s EXCEPT !.tile = Set(s.tile, f, v)]
Put(s, f, r) == [s EXCEPT !.c = r.c, !.tile = Set(s.tile, f, r.v)]
AssignIf(cond, s, f) == IF cond THEN Assign(s, f, TRUE) ELSE s

\* if (flags1 & 2): the block id, its frame and its colour.
BlockId(s) ==
  Put(s, "blockId", IF Bit(Flag(s, 1), 5) = 1 THEN readUInt16(s.c) ELSE readUInt8(s.c))
\* this.world.importants[tile.blockId]
Important(s) ==
  /\ (s.tile["blockId"] + 1) \in DOMAIN s.importants
  /\ s.importants[s.tile["blockId"] + 1]
\* A variant of FrameYZero that keeps the frame Y read.
FrameYKept(s) == s
FrameYZero(s) == IF s.tile["blockId"] = FrameYZeroBlock THEN Assign(s, "frameY", 0) ELSE s
FrameY(s) == FrameYZero(Put(s, "frameY", readInt16(s.c)))
Frame(s) == IF Important(s) THEN FrameY(Put(s, "frameX", readInt16(s.c))) ELSE s
BlockColor(s) ==
  IF Flag(s, 3) # 0 /\ Bit(Flag(s, 3), 3) = 1 THEN Put(s, "blockColor", readUInt8(s.c))
  ELSE s
BlockPart(s) == IF Bit(Flag(s, 1), 1) = 1 THEN BlockColor(Frame(BlockId(s))) ELSE s

\* if (flags1 & 4): the wall id and its colour.
WallColor(s) ==
  IF Flag(s, 3) # 0 /\ Bit(Flag(s, 3), 4) = 1 THEN Put(s, "wallColor", readUInt8(s.c))
  ELSE s
WallPart(s) ==
  IF Bit(Flag(s, 1), 2) = 1 THEN WallColor(Put(s, "wallId", readUInt8(s.c))) ELSE s

\* liquidType = (flags1 & 24) >> 3; if (liquidType) the amount and the kind.
LiquidKind(s) ==
  Assign(s, "liquidType",
         IF Flag(s, 3) # 0 /\ Bit(Flag(s, 3), 7) = 1 THEN "shimmer"
         ELSE LiquidName((Flag(s, 1) \div 8) % 4))
LiquidPart(s) ==
  IF (Flag(s, 1) \div 8) % 4 # 0 THEN LiquidKind(Put(s, "liquidAmount", readUInt8(s.c)))
  ELSE s

\* if (flags1 > 1) { block, wall, liquid }
Body(s) == IF Flag(s, 1) > 1 THEN LiquidPart(WallPart(BlockPart(s))) ELSE s

\* if (flags2) { wires, slope; if (flags3) { actuator, yellow wire, the high
\* byte of the wall id; if (flags4) { invisible, full bright } } }
Wires(s) ==
  AssignIf(Bit(Flag(s, 2), 3) = 1,
    AssignIf(Bit(Flag(s, 2), 2) = 1,
      AssignIf(Bit(Flag(s, 2), 1) = 1, s, "wireRed"), "wireBlue"), "wireGreen")
Slope(s) ==
  IF (Flag(s, 2) \div 16) % 8 \in 1..5
  THEN Assign(s, "slope", SlopeName((Flag(s, 2) \div 16) % 8)) ELSE s
Actuators(s) ==
  AssignIf(Bit(Flag(s, 3), 5) = 1,
    AssignIf(Bit(Flag(s, 3), 2) = 1,
      AssignIf(Bit(Flag(s, 3), 1) = 1, s, "actuator"), "actuated"), "wireYellow")
\* tile.wallId = (readUInt8() << 8) | (tile.wallId ?? 0)
HighByte(s, r) ==
  [s EXCEPT !.c = r.c,
            !.tile = Set(s.tile, "wallId",
                         r.v * 256 + (IF Has(s.tile, "wallId") THEN s.tile["wallId"] ELSE 0))]
WallHigh(s) == IF Bit(Flag(s, 3), 6) = 1 THEN HighByte(s, readUInt8(s.c)) ELSE s
Flags4Part(s) ==
  IF Flag(s, 4) = 0 THEN s
  ELSE AssignIf(Bit(Flag(s, 4), 4) = 1,
         AssignIf(Bit(Flag(s, 4), 3) = 1,
           AssignIf(Bit(Flag(s, 4), 2) = 1,
             AssignIf(Bit(Flag(s, 4), 1) = 1, s, "invisibleBlock"),
             "invisibleWall"), "fullBrightBlock"), "fullBrightWall")
Flags3Part(s) == IF Flag(s, 3) = 0 THEN s ELSE Flags4Part(WallHigh(Actuators(s)))
ExtraPart(s) == IF Flag(s, 2) = 0 THEN s ELSE Flags3Part(Slope(Wires(s)))

\* switch ((flags1 & 192) >> 6) { case 1: RLE = readUInt8(); case 2: RLE = readInt16() }
Run(s, r) == [s EXCEPT !.c = r.c, !.RLE = r.v, !.ran = TRUE]
RunPart(s) ==
  CASE (Flag(s, 1) \div 64) % 4 = 1 -> Run(s, readUInt8(s.c))
    [] (Flag(s, 1) \div 64) % 4 = 2 -> Run(s, readInt16(s.c))
    [] OTHER -> s

\* The tile record at the cursor: s.tile is the tile returned, s.RLE the run
\* count left in this.RLE.
parseTileData(c, importants, rle) ==
  RunPart(ExtraPart(Body(NewTile(FlagChain(c), importants, rle))))

(***************************************************************************)
(* TerrariaWorldParser.parseWorldTiles and parse, as steps.                *)
(*   pc = "new"        the parser is constructed and the file loaded       *)
(*        "necessary"  parse is about to call parseNecessaryData           *)
(*        "header"     the section loop is at "header"                     *)
(*        "tiles"      the section loop is at "tiles"                      *)
(*        "cell"       parseWorldTiles is about to call parseTileData       *)
(*        "fill"       parseWorldTiles is at the test of while (RLE > 0)    *)
(*                     with RLE > 0                                        *)
(*        "return"     the section loop is over                            *)
(*        "done"       parse has returned data                             *)
(*        "failed"     an exception left parse (cursor.thrown names it)    *)
(*        "hung"       parse is in a loop that never ends                  *)
(***************************************************************************)
\* String.prototype.toLowerCase on the section names the model passes.
toLowerCase(s) ==
  CASE s = "Header" -> "header"
    [] s = "Tiles" -> "tiles"
    [] s = "TILES" -> "tiles"
    [] OTHER -> s

\* The sections arguments the model passes to parse.
SectionChoices == {<<"header", "tiles">>, <<"Tiles">>, <<"header">>}

NoResult == [returned |-> FALSE, value |-> Empty]

\* this.world.pointers[idx]: undefined past the end of the array.
Pointer(idx) ==
  IF idx + 1 <= Len(world.pointers)
  THEN [n |-> world.pointers[idx + 1], undefined |-> FALSE]
  ELSE [n |-> 0, undefined |-> TRUE]

Includes(seq, e) == \E i \in 1..Len(seq) : seq[i] = e

\* A variant of After in which parse goes on after an exception.
AfterSwallowed(thrown, next) == IF thrown = "hang" THEN "hung" ELSE next

\* How a step of parse ends: an exception or an endless loop ends the call.
After(thrown, next) ==
  IF thrown = "hang" THEN "hung" ELSE IF thrown # "none" THEN "failed" ELSE next

\* parse, lines 610-634: the options, and the accessor on offset when a progress
\* callback is given.
Parse ==
  /\ pc = "new"
  /\ \E sections \in SectionChoices, progressCallback \in BOOLEAN :
       /\ options' = [ignoreBounds |-> FALSE,   \* no such key: undefined
                      sections |-> [i \in 1..Len(sections) |-> toLowerCase(sections[i])],
                      progressCallback |-> progressCallback, ignorePointers |-> FALSE]
       /\ cursor' = IF progressCallback
                    THEN [cursor EXCEPT !.hooked = TRUE,
                                        !.onePercentSize = byteLength \div 100,
                                        !.nextPercentSize = byteLength \div 100,
                                        !.percent = 0]
                    ELSE cursor
  /\ pc' = "necessary"
  /\ UNCHANGED <<buffer, RLE, world, data, grid, x, y, img, result, rec, last>>

\* this.world = r, the value of parseNecessaryData()
WorldAssigned(r) ==
  /\ cursor' = r.c
  /\ world' = r.world
  /\ pc' = After(r.c.thrown, "header")

\* this.world = this.parseNecessaryData(); const data = {}
ParseNecessaryData ==
  /\ pc = "necessary"
  /\ WorldAssigned(parseNecessaryData([cursor EXCEPT !.reads = <<>>]))
  /\ data' = Empty
  /\ UNCHANGED <<buffer, options, RLE, grid, x, y, img, result, rec, last>>

\* this.offset = this.world.pointers[idx], p being that element
Seek(p) == SetOffset([cursor EXCEPT !.reads = <<>>], p.n, p.undefined)

\* data.header = r, the value of parseHeader()
HeaderAssigned(r) ==
  /\ cursor' = r.c
  /\ data' = IF r.c.thrown = "none" THEN Set(data, "header", r.v) ELSE data
  /\ pc' = After(r.c.thrown, "tiles")

\* The section loop at "header", requested: seek to pointers[1], parseHeader.
ParseHeader ==
  /\ pc = "header"
  /\ Includes(options.sections, "header")
  /\ HeaderAssigned(parseHeader(Seek(Pointer(1)), world.version))
  /\ UNCHANGED <<buffer, options, RLE, world, grid, x, y, img, result, rec, last>>

SkipHeader ==
  /\ pc = "header"
  /\ ~Includes(options.sections, "header")
  /\ pc' = "tiles"
  /\ UNCHANGED <<buffer, options, cursor, RLE, world, data, grid, x, y, img, result, rec, last>>

\* A column: new Array(height), then its cells as they are assigned.
NewColumn(height) == [length |-> height, at |-> Empty]
PutCell(col, row, tile) ==
  [length |-> Max(col.length, row + 1), at |-> Set(col.at, row, tile)]

\* The outer for at its test with x = xx: past the last column the loops are
\* over; otherwise data[x] = new Array(height) (a RangeError for a negative
\* height) and the inner for starts, which for height <= 0 ends at once.
RECURSIVE EnterColumn(_, _)
EnterColumn(g, xx) ==
  IF xx >= world.width THEN [pc |-> "return", grid |-> g, x |-> xx, y |-> 0, thrown |-> "none"]
  ELSE IF world.height < 0
       THEN [pc |-> "failed", grid |-> g, x |-> xx, y |-> 0, thrown |-> "RangeError"]
       ELSE LET g1 == Set(g, xx, NewColumn(world.height))
            IN IF 0 < world.height
               THEN [pc |-> "cell", grid |-> g1, x |-> xx, y |-> 0, thrown |-> "none"]
               ELSE EnterColumn(g1, xx + 1)

\* The inner for after its body ended at row yy: y++, then its test.
NextCell(g, xx, yy) ==
  IF yy + 1 < world.height
  THEN [pc |-> "cell", grid |-> g, x |-> xx, y |-> yy + 1, thrown |-> "none"]
  ELSE EnterColumn(g, xx + 1)

\* After the body's parseTileData or one round of the while loop: the while
\* test, and when it fails the inner for's increment.
AfterCell(g, xx, yy, rle) ==
  IF rle > 0 THEN [pc |-> "fill", grid |-> g, x |-> xx, y |-> yy, thrown |-> "none"]
  ELSE NextCell(g, xx, yy)

Goto(n) ==
  /\ pc' = n.pc
  /\ grid' = n.grid
  /\ x' = n.x
  /\ y' = n.y
  /\ data' = IF n.pc = "return" THEN Set(data, "tiles", n.grid) ELSE data

\* The section loop at "tiles", requested: seek to pointers[2]; parseWorldTiles
\* sets RLE = 0 and data = new Array(width) (a RangeError for a negative width)
\* and enters its loops.
ParseWorldTiles ==
  /\ pc = "tiles"
  /\ Includes(options.sections, "tiles")
  /\ LET n == IF world.width < 0
              THEN [pc |-> "failed", grid |-> Empty, x |-> 0, y |-> 0, thrown |-> "RangeError"]
              ELSE EnterColumn(Empty, 0)
     IN /\ cursor' = [Seek(Pointer(2)) EXCEPT !.thrown = n.thrown]
        /\ Goto(n)
  /\ RLE' = 0
  /\ rec' = [decoded |-> 0, runs |-> 0, flags |-> <<>>, reads |-> <<>>, ran |-> FALSE,
             x |-> 0, y |-> 0, RLE |-> 0]
  /\ UNCHANGED <<buffer, options, world, img, result, last>>

SkipTiles ==
  /\ pc = "tiles"
  /\ ~Includes(options.sections, "tiles")
  /\ pc' = "return"
  /\ UNCHANGED <<buffer, options, cursor, RLE, world, data, grid, x, y, img, result, rec, last>>

\* data[x][y] = r.tile, r being what parseTileData() left, then the test of
\* the while loop; rec notes the record decoded.
TileAssigned(r) ==
  IF r.c.thrown # "none"
  THEN /\ cursor' = r.c
       /\ pc' = After(r.c.thrown, "cell")
       /\ UNCHANGED <<RLE, grid, x, y, data, rec>>
  ELSE /\ cursor' = r.c
       /\ RLE' = r.RLE
       /\ rec' = [decoded |-> rec.decoded + 1,
                  runs |-> rec.runs + (IF r.ran THEN r.RLE ELSE 0),
                  flags |-> r.flags, reads |-> r.c.reads, ran |-> r.ran,
                  x |-> x, y |-> y, RLE |-> r.RLE]
       /\ Goto(AfterCell(Set(grid, x, PutCell(grid[x], y, r.tile)), x, y, r.RLE))

ParseTileData ==
  /\ pc = "cell"
  /\ TileAssigned(parseTileData([cursor EXCEPT !.reads = <<>>], world.importants, RLE))
  /\ UNCHANGED <<buffer, options, world, img, result, last>>

\* One round of while (RLE > 0): data[x][y + 1] = data[x][y]; y++; RLE--.
RunFill ==
  /\ pc = "fill"
  /\ LET g == Set(grid, x, PutCell(grid[x], y + 1, grid[x].at[y]))
     IN Goto(AfterCell(g, x, y + 1, RLE - 1))
  /\ RLE' = RLE - 1
  /\ UNCHANGED <<buffer, options, cursor, world, img, result, rec, last>>

\* return data
Return ==
  /\ pc = "return"
  /\ result' = [returned |-> TRUE, value |-> data]
  /\ pc' = "done"
  /\ UNCHANGED <<buffer, options, cursor, RLE, world, data, grid, x, y, img, rec, last>>

(***************************************************************************)
(* The world files the parse specification starts from.  A file is laid    *)
(* out as the game writes it: the version, "relogic", the file type, 12    *)
(* bytes, the pointer table, the important-tile bits, then the header      *)
(* section (whose first fields the preamble reads too) and the tile        *)
(* section.  Each family below varies some of it.                          *)
(***************************************************************************)
MaxRecords == 2      \* most tile records in a generated tile section
HeaderPad == 420     \* zero bytes that follow the generated header fields
LongColumn == 85     \* rows of the long column of family 4

LE16(n) == <<n % 256, (n \div 256) % 256>>
LE32(n) == <<n % 256, (n \div 256) % 256, (n \div 65536) % 256, (n \div 16777216) % 256>>
Zeros(n) == [i \in 1..n |-> 0]

RECURSIVE Flatten(_)
Flatten(ss) == IF ss = <<>> THEN <<>> ELSE Head(ss) \o Flatten(Tail(ss))

\* f: version, magic, fileType, pointerCount, headerShift, importantBits,
\*    importantBytes, width, height, rest (the header after maxTilesX), tiles.
\* pointers[1] is where the header section starts plus headerShift, pointers[2]
\* where the tile section starts; pointerCount of them are written.
WorldFile(f) ==
  LET head == LE32(f.version) \o f.magic \o <<f.fileType>> \o Zeros(12)
      p1 == Len(head) + 2 + 4 * f.pointerCount + 2 + Len(f.importantBytes)
      header == <<0>> \o <<0>> \o Zeros(44) \o LE32(f.height) \o LE32(f.width) \o f.rest
      p2 == p1 + Len(header)
      table == SubSeq(LE32(p1 + f.headerShift) \o LE32(p2) \o LE32(0), 1, 4 * f.pointerCount)
  IN head \o LE16(f.pointerCount) \o table \o LE16(f.importantBits) \o f.importantBytes
          \o header \o f.tiles

Prefixes(s) == {SubSeq(s, 1, n) : n \in 0..Len(s)}

\* The base file: version 194, two pointers, eight important bits of which
\* tile 1 is set, a 1 x 2 grid, no header beyond the dimensions, no tiles.
BaseFile ==
  [version |-> MinVersion, magic |-> Relogic, fileType |-> WorldFileType,
   pointerCount |-> 2, headerShift |-> 0, importantBits |-> 8, importantBytes |-> <<2>>,
   width |-> 1, height |-> 2, rest |-> <<>>, tiles |-> <<>>]

\* Family 1, the preamble: every truncation of a valid file, complete files
\* with another version, magic string or file type, and one with the pointer
\* count -1.
PreambleFiles ==
  Prefixes(WorldFile([BaseFile EXCEPT !.tiles = <<64, 1>>]))
  \cup {WorldFile([BaseFile EXCEPT !.pointerCount = -1, !.tiles = <<64, 1>>])}
  \cup {WorldFile([BaseFile EXCEPT !.version = v, !.magic = m, !.fileType = t]) :
          v \in {MinVersion - 1, MinVersion},
          m \in {Relogic, <<114, 101, 108, 111, 103, 105, 67>>},
          t \in {WorldFileType, WorldFileType + 1}}

\* Family 2, the tile section: up to MaxRecords records out of TileRecords, for
\* several grid sizes.
TileRecords ==
  { <<0>>,                        \* a bare tile
    <<64, 1>>,                    \* a bare tile, run 1
    <<64, 3>>,                    \* a bare tile, run 3
    <<128, 255, 255>>,            \* a bare tile, 16-bit run -1
    <<2, 5>>,                     \* block 5
    <<70, 1, 9, 0, 8, 0, 7, 1>>,  \* block 1 with its frame, wall 7, run 1
    <<1, 2>>,                     \* flags2 = 2: the red wire
    <<3, 1, 1, 30, 5>>,           \* four flag bytes, block 5
    <<9, 1, 128, 200>>,           \* liquid 1 with flags3 bit 7
    <<1, 1, 128>>,                \* flags3 bit 7 with no liquid
    <<5, 1, 64, 7, 1>>,           \* wall 7 with flags3 bit 6 and the byte 1
    <<1, 1, 64, 2>> }             \* flags3 bit 6 and the byte 2 with no wall

RECURSIVE RecordSeqs(_)
RecordSeqs(n) ==
  IF n = 0 THEN {<<>>}
  ELSE LET shorter == RecordSeqs(n - 1)
       IN shorter \cup {s \o r : s \in {t \in shorter : TRUE}, r \in TileRecords}

GridSizes == {<<1, 2>>, <<2, 2>>, <<1, 3>>, <<2, 0>>, <<0, 1>>}

TileFiles ==
  {WorldFile([BaseFile EXCEPT !.width = wh[1], !.height = wh[2], !.tiles = t]) :
     wh \in GridSizes, t \in RecordSeqs(MaxRecords)}

\* Family 3, the header: a complete header section at several versions, with
\* the header pointer exact or four bytes late, zero to three pointers, the
\* bytes after the dimensions all 0 or starting with nine 1s, and a tile section
\* that is complete or one record short.
HeaderVersions == {194, 224, 225, 256, 257, 269}

HeaderFiles ==
  {WorldFile([BaseFile EXCEPT !.version = v, !.pointerCount = n, !.headerShift = s,
                             !.rest = r \o Zeros(HeaderPad), !.tiles = t]) :
     v \in HeaderVersions, n \in 0..3, s \in {0, 4},
     r \in {<<>>, <<1, 1, 1, 1, 1, 1, 1, 1, 1>>}, t \in {<<64, 1>>, <<0>>}}

\* Family 4, a long column: a 1 x LongColumn grid of bare tiles, one byte each,
\* in a file of fewer than 200 bytes.
ProgressFiles ==
  {WorldFile([BaseFile EXCEPT !.height = LongColumn, !.tiles = Zeros(LongColumn)])}

\* Family 5, blocks: 145 important bits of which tiles 1 and 144 are set, and a
\* 1 x 2 grid of two block records with 8-bit and 16-bit ids.
BlockRecords ==
  { <<2, 144, 1, 0, 5, 0>>,            \* block 144, frame (1, 5)
    <<34, 144, 0, 255, 255, 5, 1>>,    \* 16-bit block 144, frame (-1, 261)
    <<34, 1, 0, 3, 0, 254, 255>>,      \* 16-bit block 1, frame (3, -2)
    <<34, 1, 1>>,                      \* 16-bit block 257
    <<2, 5>> }                         \* block 5

BlockFiles ==
  {WorldFile([BaseFile EXCEPT !.importantBits = 145,
                             !.importantBytes = <<2>> \o Zeros(17) \o <<1>>,
                             !.tiles = r1 \o r2]) :
     r1 \in BlockRecords, r2 \in BlockRecords}

WorldFiles ==
  PreambleFiles \cup TileFiles \cup HeaderFiles \cup ProgressFiles \cup BlockFiles

\* The state after construction (new TerrariaWorldParser(), loadFile): offset 0,
\* options {}, RLE 0, world unassigned.
Init ==
  /\ buffer \in WorldFiles
  /\ options = [ignoreBounds |-> FALSE]
  /\ cursor = NewCursor
  /\ RLE = 0
  /\ world = NoWorld
  /\ pc = "new"
  /\ data = Empty
  /\ grid = Empty
  /\ x = 0
  /\ y = 0
  /\ img = Empty
  /\ result = NoResult
  /\ rec = [decoded |-> 0, runs |-> 0, flags |-> <<>>, reads |-> <<>>, ran |-> FALSE,
            x |-> 0, y |-> 0, RLE |-> 0]
  /\ last = [op |-> "new"]

Next ==
  \/ Parse
  \/ ParseNecessaryData
  \/ ParseHeader
  \/ SkipHeader
  \/ ParseWorldTiles
  \/ SkipTiles
  \/ ParseTileData
  \/ RunFill
  \/ Return

Spec == Init /\ [][Next]_vars

(***************************************************************************)
(* The cursor specification: a parser object over a small buffer, its      *)
(* reads, skips and seeks called in any order.  An exception a read throws *)
(* is caught by the caller (and noted in last); the object stays usable.   *)
(***************************************************************************)
\* The buffers: every length up to MaxBuf of three byte patterns (all 255;
\* 1, 2, 3, ...; 129 and 2 alternating).
MaxString == 300     \* longest string length readString() is followed to
BitSizes == {-8, -1, 0, 1, 7, 8, 9, 16, 17}   \* the sizes parseBitsByte is called with
StringLengths == {0, 1, 3}                    \* the lengths readString(n) is called with

PatternByte(p, i) ==
  CASE p = 0 -> 255
    [] p = 1 -> i % 256
    [] p = 2 -> IF i % 2 = 1 THEN 129 ELSE 2
    [] OTHER -> IF i = 1 THEN 129 ELSE IF i < 5 THEN 128 ELSE IF i = 5 THEN 8 ELSE 65

CursorBuffers == {[i \in 1..n |-> PatternByte(p, i)] : n \in 0..MaxBuf, p \in 0..3}

Caught(c) == [c EXCEPT !.thrown = "none", !.reads = <<>>]

Observed(op, r) ==
  [op |-> op, before |-> cursor.offset, beforeNaN |-> cursor.nan,
   outcome |-> r.outcome, v |-> r.v]

InitCursor ==
  /\ buffer \in CursorBuffers
  /\ options \in {[ignoreBounds |-> b] : b \in BOOLEAN}
  /\ cursor = NewCursor
  /\ RLE = 0
  /\ world = NoWorld
  /\ pc = "cursor"
  /\ data = Empty
  /\ grid = Empty
  /\ x = 0
  /\ y = 0
  /\ img = Empty
  /\ result = NoResult
  /\ rec = [decoded |-> 0]
  /\ last = [op |-> "new"]

Did(op, r) ==
  /\ cursor' = Caught(r.c)
  /\ last' = Observed(op, r)
  /\ UNCHANGED <<buffer, options, RLE, world, pc, data, grid, x, y, img, result, rec>>

\* The offsets are kept small: no read starts past MaxSeek.
CanRead == pc = "cursor" /\ (cursor.nan \/ cursor.offset <= MaxSeek)

ReadUInt8 == CanRead /\ Did("readUInt8", readUInt8(cursor))
ReadInt16 == CanRead /\ Did("readInt16", readInt16(cursor))
ReadUInt16 == CanRead /\ Did("readUInt16", readUInt16(cursor))
ReadInt32 == CanRead /\ Did("readInt32", readInt32(cursor))
ReadUInt32 == CanRead /\ Did("readUInt32", readUInt32(cursor))
ReadFloat32 == CanRead /\ Did("readFloat32", readFloat32(cursor))
ReadFloat64 == CanRead /\ Did("readFloat64", readFloat64(cursor))
ReadBoolean == CanRead /\ Did("readBoolean", readBoolean(cursor))

SkipBytes ==
  /\ CanRead
  /\ \E count \in 1..2 :
       /\ cursor' = skipBytes(cursor, count)
       /\ last' = [op |-> "skipBytes"]
  /\ UNCHANGED <<buffer, options, RLE, world, pc, data, grid, x, y, img, result, rec>>

\* jumpTo(offset), and the assignment this.offset = pointers[idx] of parse, whose
\* value is a pointer read from the stream (any integer) or undefined.
JumpTo ==
  /\ pc = "cursor"
  /\ \E target \in {[n |-> k, undefined |-> FALSE] : k \in -1..MaxSeek}
                     \cup {[n |-> 0, undefined |-> TRUE]} :
       /\ cursor' = jumpTo(cursor, target.n, target.undefined)
       /\ last' = [op |-> "jumpTo"]
  /\ UNCHANGED <<buffer, options, RLE, world, pc, data, grid, x, y, img, result, rec>>

\* A call of a composite read (parseBitsByte, readString) with the arguments
\* args returned or threw r; a call that never returns leaves the program hung.
DidCall(op, args, r) ==
  /\ cursor' = Caught(r.c)
  /\ last' = [op |-> op, args |-> args, before |-> cursor.offset,
              beforeNaN |-> cursor.nan, v |-> r.v,
              outcome |-> IF r.c.thrown = "none" THEN "ok"
                          ELSE IF r.c.thrown = "hang" THEN "hang" ELSE "throw"]
  /\ pc' = IF r.c.thrown = "hang" THEN "hung" ELSE pc
  /\ UNCHANGED <<buffer, options, RLE, world, data, grid, x, y, img, result, rec>>

ParseBitsByte ==
  /\ CanRead
  /\ \E size \in BitSizes : DidCall("parseBitsByte", <<size>>, parseBitsByte(cursor, size))

\* readString(): n is the length its loop decoded.  Lengths above MaxString
\* are left out.
ReadStringOf(n) == n.v <= MaxString /\ DidCall("readString", <<>>, readStringOf(n))

ReadString ==
  /\ CanRead
  /\ \/ ReadStringOf(readLength(cursor, 0, 0))
     \/ \E length \in StringLengths :
          DidCall("readString", <<length>>, readStringN(cursor, length))

NextCursor ==
  \/ ReadUInt8 \/ ReadInt16 \/ ReadUInt16 \/ ReadInt32 \/ ReadUInt32
  \/ ReadFloat32 \/ ReadFloat64 \/ ReadBoolean \/ SkipBytes \/ JumpTo
  \/ ParseBitsByte \/ ReadString

SpecCursor == InitCursor /\ [][NextCursor]_vars
(***************************************************************************)
(* WldHandler.doConvert: the rasterizer.  It runs on the value parse       *)
(* returned, here data: data.header and data.tiles.  The doubles           *)
(* header.worldSurface and header.rockLayer range over the multiples of    *)
(* 1/2 and are held as twice their value.                                  *)
(*   pc = "convert"    parse has returned; the image is about to be made   *)
(*        "pixel"      the inner for is at its body with the cell (x, y)   *)
(*        "put"        the loops are over                                  *)
(*        "converted"  the image is on the canvas                          *)
(*        "failed"     an exception left doConvert                         *)
(***************************************************************************)
\* TILE_COLORS: the colour of block id k is entry k + 1; <<>> stands for an id
\* the table has no key for.
TILE_COLORS ==
  <<
    <<151, 107, 75>>, <<128, 128, 128>>, <<28, 216, 94>>, <<27, 197, 109>>,
    <<253, 221, 3>>, <<151, 107, 75>>, <<140, 101, 80>>, <<150, 67, 22>>,
    <<185, 164, 23>>, <<185, 194, 195>>, <<119, 105, 79>>, <<119, 105, 79>>,
    <<174, 24, 69>>, <<133, 213, 247>>, <<191, 142, 111>>, <<191, 142, 111>>,
    <<140, 130, 116>>, <<144, 148, 144>>, <<191, 142, 111>>, <<191, 142, 111>>,
    <<163, 116, 81>>, <<233, 207, 94>>, <<98, 95, 167>>, <<141, 137, 223>>,
    <<122, 116, 218>>, <<109, 90, 128>>, <<119, 101, 125>>, <<226, 196, 49>>,
    <<151, 79, 80>>, <<175, 105, 128>>, <<170, 120, 84>>, <<141, 120, 168>>,
    <<151, 135, 183>>, <<253, 221, 3>>, <<235, 166, 135>>, <<197, 216, 219>>,
    <<230, 89, 92>>, <<104, 86, 84>>, <<144, 144, 144>>, <<181, 62, 59>>,
    <<146, 81, 68>>, <<66, 84, 109>>, <<251, 235, 127>>, <<84, 100, 63>>,
    <<107, 68, 99>>, <<185, 164, 23>>, <<185, 194, 195>>, <<150, 67, 22>>,
    <<128, 128, 128>>, <<43, 143, 255>>, <<170, 48, 114>>, <<192, 202, 203>>,
    <<23, 177, 76>>, <<255, 218, 56>>, <<200, 246, 254>>, <<191, 142, 111>>,
    <<43, 40, 84>>, <<68, 68, 76>>, <<142, 66, 66>>, <<92, 68, 73>>, <<143, 215, 29>>,
    <<135, 196, 26>>, <<121, 176, 24>>, <<110, 140, 182>>, <<196, 96, 114>>,
    <<56, 150, 97>>, <<160, 118, 58>>, <<140, 58, 166>>, <<125, 191, 197>>,
    <<190, 150, 92>>, <<93, 127, 255>>, <<182, 175, 130>>, <<182, 175, 130>>,
    <<27, 197, 109>>, <<96, 197, 27>>, <<36, 36, 36>>, <<142, 66, 66>>,
    <<238, 85, 70>>, <<121, 110, 97>>, <<191, 142, 111>>, <<73, 120, 17>>,
    <<245, 133, 191>>, <<255, 120, 0>>, <<255, 120, 0>>, <<255, 120, 0>>,
    <<192, 192, 192>>, <<191, 142, 111>>, <<191, 142, 111>>, <<191, 142, 111>>,
    <<191, 142, 111>>, <<144, 148, 144>>, <<13, 88, 130>>, <<213, 229, 237>>,
    <<253, 221, 3>>, <<191, 142, 111>>, <<255, 162, 31>>, <<144, 148, 144>>,
    <<144, 148, 144>>, <<253, 221, 3>>, <<144, 148, 144>>, <<253, 221, 3>>,
    <<191, 142, 111>>, <<229, 212, 73>>, <<141, 98, 77>>, <<191, 142, 111>>,
    <<144, 148, 144>>, <<191, 142, 111>>, <<11, 80, 143>>, <<91, 169, 169>>,
    <<78, 193, 227>>, <<48, 186, 135>>, <<128, 26, 52>>, <<103, 98, 122>>,
    <<48, 208, 234>>, <<191, 142, 111>>, <<33, 171, 207>>, <<238, 225, 218>>,
    <<181, 172, 190>>, <<238, 225, 218>>, <<107, 92, 108>>, <<92, 68, 73>>,
    <<11, 80, 143>>, <<91, 169, 169>>, <<106, 107, 118>>, <<73, 51, 36>>,
    <<141, 175, 255>>, <<159, 209, 229>>, <<128, 204, 230>>, <<191, 142, 111>>,
    <<255, 117, 224>>, <<160, 160, 160>>, <<52, 52, 52>>, <<144, 148, 144>>,
    <<231, 53, 56>>, <<166, 187, 153>>, <<253, 114, 114>>, <<213, 203, 204>>,
    <<144, 148, 144>>, <<96, 96, 96>>, <<191, 142, 111>>, <<98, 95, 167>>,
    <<192, 59, 59>>, <<144, 148, 144>>, <<144, 148, 144>>, <<144, 148, 144>>,
    <<192, 30, 30>>, <<43, 192, 30>>, <<211, 236, 241>>, <<181, 211, 210>>,
    <<220, 50, 50>>, <<128, 26, 52>>, <<190, 171, 94>>, <<128, 133, 184>>,
    <<239, 141, 126>>, <<190, 171, 94>>, <<131, 162, 161>>, <<170, 171, 157>>,
    <<104, 100, 126>>, <<145, 81, 85>>, <<148, 133, 98>>, <<0, 0, 200>>,
    <<144, 195, 232>>, <<184, 219, 240>>, <<174, 145, 214>>, <<218, 182, 204>>,
    <<100, 100, 100>>, <<129, 125, 93>>, <<62, 82, 114>>, <<132, 157, 127>>,
    <<152, 171, 198>>, <<228, 219, 162>>, <<33, 135, 85>>, <<181, 194, 217>>,
    <<253, 221, 3>>, <<253, 221, 3>>, <<129, 125, 93>>, <<132, 157, 127>>,
    <<152, 171, 198>>, <<255, 0, 255>>, <<49, 134, 114>>, <<126, 134, 49>>,
    <<134, 59, 49>>, <<43, 86, 140>>, <<121, 49, 134>>, <<100, 100, 100>>,
    <<149, 149, 115>>, <<255, 0, 255>>, <<255, 0, 255>>, <<73, 120, 17>>,
    <<223, 255, 255>>, <<182, 175, 130>>, <<151, 107, 75>>, <<26, 196, 84>>,
    <<56, 121, 255>>, <<157, 157, 107>>, <<134, 22, 34>>, <<147, 144, 178>>,
    <<97, 200, 225>>, <<62, 61, 52>>, <<208, 80, 80>>, <<216, 152, 144>>,
    <<203, 61, 64>>, <<213, 178, 28>>, <<128, 44, 45>>, <<125, 55, 65>>,
    <<186, 50, 52>>, <<124, 175, 201>>, <<144, 148, 144>>, <<88, 105, 118>>,
    <<144, 148, 144>>, <<192, 59, 59>>, <<191, 233, 115>>, <<144, 148, 144>>,
    <<137, 120, 67>>, <<103, 103, 103>>, <<254, 121, 2>>, <<191, 142, 111>>,
    <<144, 148, 144>>, <<144, 148, 144>>, <<144, 148, 144>>, <<144, 148, 144>>,
    <<239, 90, 50>>, <<231, 96, 228>>, <<57, 85, 101>>, <<107, 132, 139>>,
    <<227, 125, 22>>, <<141, 56, 0>>, <<255, 255, 255>>, <<144, 148, 144>>,
    <<255, 156, 12>>, <<131, 79, 13>>, <<224, 194, 101>>, <<145, 81, 85>>,
    <<255, 0, 255>>, <<53, 44, 41>>, <<214, 184, 46>>, <<149, 232, 87>>,
    <<255, 241, 51>>, <<225, 128, 206>>, <<224, 194, 101>>, <<99, 50, 30>>,
    <<77, 74, 72>>, <<99, 50, 30>>, <<140, 179, 254>>, <<200, 245, 253>>,
    <<99, 50, 30>>, <<99, 50, 30>>, <<140, 150, 150>>, <<219, 71, 38>>,
    <<249, 52, 243>>, <<76, 74, 83>>, <<235, 150, 23>>, <<153, 131, 44>>,
    <<57, 48, 97>>, <<248, 158, 92>>, <<107, 49, 154>>, <<154, 148, 49>>,
    <<49, 49, 154>>, <<49, 154, 68>>, <<154, 49, 77>>, <<85, 89, 118>>,
    <<154, 83, 49>>, <<221, 79, 255>>, <<250, 255, 79>>, <<79, 102, 255>>,
    <<79, 255, 89>>, <<255, 79, 79>>, <<240, 240, 247>>, <<255, 145, 79>>,
    <<191, 142, 111>>, <<122, 217, 232>>, <<122, 217, 232>>, <<121, 119, 101>>,
    <<128, 128, 128>>, <<190, 171, 94>>, <<122, 217, 232>>, <<122, 217, 232>>,
    <<122, 217, 232>>, <<122, 217, 232>>, <<122, 217, 232>>, <<122, 217, 232>>,
    <<122, 217, 232>>, <<122, 217, 232>>, <<128, 128, 128>>, <<150, 67, 22>>,
    <<122, 217, 232>>, <<122, 217, 232>>, <<79, 128, 17>>, <<122, 217, 232>>,
    <<122, 217, 232>>, <<122, 217, 232>>, <<122, 217, 232>>, <<122, 217, 232>>,
    <<122, 217, 232>>, <<122, 217, 232>>, <<122, 217, 232>>, <<122, 217, 232>>,
    <<122, 217, 232>>, <<122, 217, 232>>, <<122, 217, 232>>, <<144, 148, 144>>,
    <<144, 148, 144>>, <<144, 148, 144>>, <<144, 148, 144>>, <<144, 148, 144>>,
    <<144, 148, 144>>, <<144, 148, 144>>, <<144, 148, 144>>, <<144, 148, 144>>,
    <<122, 217, 232>>, <<122, 217, 232>>, <<117, 61, 25>>, <<204, 93, 73>>,
    <<87, 150, 154>>, <<181, 164, 125>>, <<235, 114, 80>>, <<122, 217, 232>>,
    <<122, 217, 232>>, <<122, 217, 232>>, <<96, 68, 48>>, <<203, 185, 151>>,
    <<96, 77, 64>>, <<198, 170, 104>>, <<182, 141, 86>>, <<228, 213, 173>>,
    <<129, 125, 93>>, <<9, 61, 191>>, <<253, 32, 3>>, <<200, 246, 254>>,
    <<15, 15, 15>>, <<226, 118, 76>>, <<161, 172, 173>>, <<204, 181, 72>>,
    <<190, 190, 178>>, <<191, 142, 111>>, <<217, 174, 137>>, <<253, 62, 3>>,
    <<144, 148, 144>>, <<85, 255, 160>>, <<122, 217, 232>>, <<96, 248, 2>>,
    <<105, 74, 202>>, <<29, 240, 255>>, <<254, 202, 80>>, <<131, 252, 245>>,
    <<255, 156, 12>>, <<149, 212, 89>>, <<236, 74, 79>>, <<44, 26, 233>>,
    <<144, 148, 144>>, <<55, 97, 155>>, <<31, 31, 31>>, <<238, 97, 94>>,
    <<28, 216, 94>>, <<141, 107, 89>>, <<141, 107, 89>>, <<233, 203, 24>>,
    <<168, 178, 204>>, <<122, 217, 232>>, <<122, 217, 232>>, <<122, 217, 232>>,
    <<122, 217, 232>>, <<122, 217, 232>>, <<122, 217, 232>>, <<122, 217, 232>>,
    <<146, 136, 205>>, <<223, 232, 233>>, <<168, 178, 204>>, <<50, 46, 104>>,
    <<50, 46, 104>>, <<127, 116, 194>>, <<249, 101, 189>>, <<252, 128, 201>>,
    <<9, 61, 191>>, <<253, 32, 3>>, <<255, 156, 12>>, <<160, 120, 92>>,
    <<191, 142, 111>>, <<160, 120, 100>>, <<251, 209, 240>>, <<191, 142, 111>>,
    <<254, 121, 2>>, <<28, 216, 94>>, <<221, 136, 144>>, <<131, 206, 12>>,
    <<87, 21, 144>>, <<127, 92, 69>>, <<127, 92, 69>>, <<127, 92, 69>>,
    <<127, 92, 69>>, <<253, 32, 3>>, <<122, 217, 232>>, <<122, 217, 232>>,
    <<122, 217, 232>>, <<122, 217, 232>>, <<191, 142, 111>>, <<198, 124, 78>>,
    <<212, 192, 100>>, <<100, 82, 126>>, <<77, 76, 66>>, <<96, 68, 117>>,
    <<68, 60, 51>>, <<174, 168, 186>>, <<205, 152, 186>>, <<140, 84, 60>>,
    <<140, 140, 140>>, <<120, 120, 120>>, <<255, 227, 132>>, <<85, 83, 82>>,
    <<85, 83, 82>>, <<75, 139, 166>>, <<227, 46, 46>>, <<75, 139, 166>>,
    <<122, 217, 232>>, <<122, 217, 232>>, <<249, 75, 7>>, <<0, 160, 170>>,
    <<160, 87, 234>>, <<22, 173, 254>>, <<117, 125, 151>>, <<255, 255, 255>>,
    <<73, 70, 70>>, <<73, 70, 70>>, <<255, 255, 255>>, <<146, 155, 187>>,
    <<174, 195, 215>>, <<77, 11, 35>>, <<119, 22, 52>>, <<255, 255, 255>>,
    <<63, 63, 63>>, <<23, 119, 79>>, <<23, 54, 119>>, <<119, 68, 23>>, <<74, 23, 119>>,
    <<78, 82, 109>>, <<39, 168, 96>>, <<39, 94, 168>>, <<168, 121, 39>>,
    <<111, 39, 168>>, <<150, 148, 174>>, <<255, 255, 255>>, <<255, 255, 255>>,
    <<3, 144, 201>>, <<123, 123, 123>>, <<191, 176, 124>>, <<55, 55, 73>>,
    <<255, 66, 152>>, <<179, 132, 255>>, <<0, 206, 180>>, <<91, 186, 240>>,
    <<92, 240, 91>>, <<240, 91, 147>>, <<255, 150, 181>>, <<255, 255, 255>>,
    <<174, 16, 176>>, <<48, 255, 110>>, <<179, 132, 255>>, <<255, 255, 255>>,
    <<211, 198, 111>>, <<190, 223, 232>>, <<141, 163, 181>>, <<255, 222, 100>>,
    <<231, 178, 28>>, <<155, 214, 240>>, <<233, 183, 128>>, <<51, 84, 195>>,
    <<205, 153, 73>>, <<233, 207, 94>>, <<255, 255, 255>>, <<191, 142, 111>>, <<>>,
    <<>>, <<>>, <<>>, <<>>, <<>>, <<>>, <<>>, <<>>, <<>>, <<>>, <<>>, <<>>, <<>>, <<>>,
    <<>>, <<>>, <<>>, <<>>, <<>>, <<>>, <<>>, <<>>, <<>>, <<>>, <<>>, <<>>, <<>>, <<>>,
    <<>>, <<>>, <<>>, <<>>, <<>>, <<>>, <<>>, <<>>, <<>>, <<>>, <<>>, <<>>, <<>>, <<>>,
    <<>>, <<>>, <<>>, <<>>, <<>>, <<>>, <<>>, <<>>, <<>>, <<>>, <<>>, <<>>, <<>>, <<>>,
    <<>>, <<>>, <<>>, <<>>, <<>>, <<>>, <<>>, <<>>, <<>>, <<>>, <<>>, <<>>, <<>>, <<>>,
    <<>>, <<>>, <<>>, <<>>, <<>>, <<>>, <<>>, <<>>, <<>>, <<>>, <<>>, <<>>, <<>>, <<>>,
    <<>>, <<>>, <<>>, <<>>, <<>>, <<>>, <<>>, <<>>, <<>>, <<>>, <<>>, <<>>, <<>>, <<>>,
    <<>>, <<>>, <<>>, <<>>, <<>>, <<>>, <<>>, <<>>, <<>>, <<>>, <<>>, <<>>, <<>>, <<>>,
    <<113, 113, 113>>, <<113, 113, 113>>, <<113, 113, 113>>, <<>>, <<113, 113, 113>>,
    <<113, 113, 113>>, <<113, 113, 113>>, <<>>, <<>>, <<>>, <<>>, <<>>, <<>>,
    <<110, 91, 77>>, <<>>, <<>>, <<>>, <<>>, <<>>, <<>>, <<>>, <<>>, <<>>, <<>>, <<>>,
    <<>>, <<>>, <<>>, <<>>, <<>>, <<>>, <<>>, <<>>, <<133, 79, 77>>
  >>

\* WALL_COLORS: the colour of wall id k is entry k + 1.
WALL_COLORS ==
  <<
    <<0, 0, 0>>, <<53, 53, 53>>, <<87, 60, 48>>, <<47, 41, 53>>, <<69, 50, 37>>,
    <<59, 59, 59>>, <<76, 44, 41>>, <<46, 50, 67>>, <<49, 61, 61>>, <<75, 46, 70>>,
    <<107, 91, 34>>, <<79, 85, 86>>, <<101, 57, 25>>, <<77, 48, 43>>, <<12, 12, 12>>,
    <<49, 43, 44>>, <<81, 63, 54>>, <<46, 50, 67>>, <<49, 61, 61>>, <<75, 46, 70>>,
    <<12, 12, 12>>, <<54, 89, 98>>, <<97, 92, 94>>, <<56, 44, 58>>, <<49, 40, 42>>,
    <<18, 66, 98>>, <<34, 64, 54>>, <<58, 48, 42>>, <<77, 70, 81>>, <<112, 58, 68>>,
    <<56, 115, 80>>, <<94, 101, 108>>, <<102, 20, 48>>, <<48, 48, 73>>, <<86, 83, 57>>,
    <<54, 59, 82>>, <<124, 70, 63>>, <<89, 84, 55>>, <<60, 90, 70>>, <<89, 89, 84>>,
    <<100, 118, 129>>, <<57, 55, 64>>, <<62, 25, 27>>, <<60, 55, 44>>, <<51, 51, 51>>,
    <<65, 63, 57>>, <<68, 83, 69>>, <<66, 70, 82>>, <<78, 69, 83>>, <<81, 74, 63>>,
    <<56, 66, 81>>, <<50, 73, 59>>, <<82, 59, 64>>, <<70, 79, 81>>, <<46, 58, 54>>,
    <<56, 56, 46>>, <<57, 49, 49>>, <<45, 51, 56>>, <<56, 48, 59>>, <<80, 63, 55>>,
    <<0, 49, 17>>, <<55, 40, 28>>, <<32, 28, 22>>, <<25, 67, 38>>, <<47, 67, 25>>,
    <<25, 67, 38>>, <<25, 67, 38>>, <<47, 67, 25>>, <<25, 67, 38>>, <<36, 37, 57>>,
    <<25, 61, 67>>, <<82, 108, 134>>, <<45, 84, 24>>, <<211, 217, 219>>,
    <<54, 60, 113>>, <<61, 61, 44>>, <<26, 51, 111>>, <<75, 18, 22>>, <<58, 35, 24>>,
    <<36, 33, 65>>, <<54, 60, 113>>, <<101, 52, 52>>, <<56, 19, 0>>, <<62, 44, 45>>,
    <<78, 105, 131>>, <<32, 39, 45>>, <<121, 80, 36>>, <<28, 8, 10>>, <<115, 68, 124>>,
    <<129, 114, 74>>, <<62, 86, 123>>, <<90, 121, 94>>, <<135, 62, 61>>,
    <<100, 96, 103>>, <<36, 48, 57>>, <<48, 46, 58>>, <<71, 46, 73>>, <<76, 46, 64>>,
    <<51, 63, 57>>, <<49, 58, 64>>, <<36, 48, 57>>, <<48, 46, 58>>, <<71, 46, 73>>,
    <<76, 46, 64>>, <<51, 63, 57>>, <<49, 58, 64>>, <<97, 72, 51>>, <<53, 53, 53>>,
    <<121, 80, 36>>, <<110, 37, 19>>, <<135, 57, 137>>, <<33, 25, 21>>, <<28, 8, 10>>,
    <<160, 75, 7>>, <<54, 42, 19>>, <<42, 30, 53>>, <<60, 34, 25>>, <<91, 83, 64>>,
    <<59, 61, 54>>, <<47, 39, 25>>, <<80, 88, 111>>, <<186, 167, 138>>,
    <<110, 119, 143>>, <<138, 128, 110>>, <<7, 48, 30>>, <<78, 103, 70>>,
    <<109, 111, 123>>, <<112, 166, 226>>, <<69, 56, 140>>, <<72, 44, 145>>,
    <<114, 85, 121>>, <<104, 119, 158>>, <<74, 74, 74>>, <<95, 119, 191>>,
    <<144, 79, 22>>, <<62, 130, 138>>, <<61, 98, 169>>, <<183, 84, 14>>,
    <<61, 57, 69>>, <<74, 32, 34>>, <<110, 100, 76>>, <<66, 70, 60>>,
    <<214, 206, 187>>, <<83, 106, 99>>, <<89, 67, 68>>, <<120, 120, 120>>,
    <<103, 55, 24>>, <<77, 77, 77>>, <<229, 218, 161>>, <<82, 70, 65>>, <<81, 69, 62>>,
    <<103, 76, 36>>, <<103, 76, 36>>, <<255, 116, 63>>, <<191, 63, 255>>,
    <<219, 219, 232>>, <<63, 255, 71>>, <<118, 63, 37>>, <<81, 37, 118>>,
    <<64, 67, 89>>, <<37, 118, 52>>, <<118, 37, 58>>, <<37, 37, 118>>,
    <<118, 113, 37>>, <<255, 63, 63>>, <<63, 81, 255>>, <<239, 255, 63>>,
    <<78, 77, 58>>, <<84, 97, 84>>, <<92, 105, 90>>, <<93, 68, 47>>, <<84, 60, 39>>,
    <<168, 125, 0>>, <<49, 105, 25>>, <<69, 48, 54>>, <<33, 50, 188>>,
    <<75, 128, 148>>, <<72, 50, 46>>, <<120, 127, 143>>, <<124, 131, 148>>,
    <<15, 16, 45>>, <<31, 31, 74>>, <<57, 55, 99>>, <<120, 127, 143>>, <<15, 16, 45>>,
    <<61, 61, 61>>, <<55, 23, 100>>, <<126, 68, 43>>, <<63, 47, 63>>, <<65, 51, 77>>,
    <<67, 72, 59>>, <<60, 38, 67>>, <<123, 56, 47>>, <<87, 24, 26>>, <<102, 64, 53>>,
    <<122, 46, 54>>, <<99, 70, 55>>, <<102, 73, 57>>, <<92, 65, 49>>, <<106, 75, 58>>,
    <<81, 33, 83>>, <<96, 79, 99>>, <<124, 42, 104>>, <<111, 54, 112>>, <<75, 68, 55>>,
    <<83, 83, 59>>, <<39, 67, 44>>, <<77, 77, 55>>, <<92, 36, 28>>, <<96, 48, 39>>,
    <<108, 44, 26>>, <<106, 42, 38>>, <<70, 69, 61>>, <<57, 60, 57>>, <<69, 57, 59>>,
    <<71, 60, 66>>, <<148, 93, 52>>, <<51, 38, 65>>, <<43, 24, 22>>, <<78, 73, 114>>,
    <<54, 36, 68>>, <<73, 18, 12>>, <<58, 47, 81>>, <<115, 65, 34>>, <<103, 112, 104>>,
    <<76, 71, 56>>, <<133, 124, 66>>, <<83, 101, 112>>, <<139, 0, 64>>,
    <<80, 12, 162>>, <<0, 93, 81>>, <<81, 68, 62>>, <<37, 47, 57>>, <<72, 53, 55>>,
    <<103, 46, 48>>, <<126, 68, 43>>, <<63, 35, 34>>, <<57, 34, 33>>, <<45, 46, 54>>,
    <<43, 52, 56>>, <<62, 45, 33>>, <<146, 95, 53>>, <<78, 69, 55>>, <<23, 52, 86>>,
    <<58, 35, 24>>, <<74, 74, 74>>, <<47, 41, 53>>, <<49, 43, 44>>, <<77, 70, 81>>,
    <<100, 118, 129>>, <<78, 69, 83>>, <<81, 74, 63>>, <<56, 66, 81>>, <<50, 73, 59>>,
    <<82, 59, 64>>, <<70, 79, 81>>, <<46, 58, 54>>, <<56, 56, 46>>, <<57, 49, 49>>,
    <<45, 51, 56>>, <<56, 48, 59>>, <<80, 63, 55>>, <<55, 40, 28>>, <<32, 28, 22>>,
    <<36, 37, 57>>, <<25, 61, 67>>, <<82, 108, 134>>, <<36, 33, 65>>, <<101, 52, 52>>,
    <<62, 44, 45>>, <<93, 68, 47>>, <<84, 60, 39>>, <<120, 127, 143>>, <<15, 16, 45>>,
    <<61, 61, 61>>, <<126, 68, 43>>, <<63, 47, 63>>, <<65, 51, 77>>, <<67, 72, 59>>,
    <<60, 38, 67>>, <<123, 56, 47>>, <<87, 24, 26>>, <<102, 64, 53>>, <<122, 46, 54>>,
    <<99, 70, 55>>, <<102, 73, 57>>, <<92, 65, 49>>, <<106, 75, 58>>, <<81, 33, 83>>,
    <<96, 79, 99>>, <<124, 42, 104>>, <<111, 54, 112>>, <<75, 68, 55>>, <<83, 83, 59>>,
    <<39, 67, 44>>, <<77, 77, 55>>, <<92, 36, 28>>, <<96, 48, 39>>, <<108, 44, 26>>,
    <<106, 42, 38>>, <<70, 69, 61>>, <<57, 60, 57>>, <<69, 57, 59>>, <<71, 60, 66>>,
    <<148, 93, 52>>, <<51, 38, 65>>, <<43, 24, 22>>, <<78, 73, 114>>, <<54, 36, 68>>,
    <<73, 18, 12>>, <<58, 47, 81>>, <<115, 65, 34>>, <<36, 65, 16>>, <<33, 61, 19>>,
    <<74, 58, 44>>, <<114, 120, 45>>, <<58, 52, 64>>, <<80, 70, 82>>, <<6, 6, 34>>,
    <<91, 48, 82>>, <<66, 39, 27>>, <<62, 83, 108>>, <<58, 84, 115>>, <<99, 94, 105>>,
    <<80, 92, 104>>, <<56, 95, 124>>, <<92, 94, 80>>, <<62, 102, 116>>,
    <<98, 103, 105>>, <<87, 92, 118>>, <<84, 89, 105>>, <<42, 44, 81>>, <<34, 66, 26>>,
    <<64, 25, 49>>, <<76, 66, 32>>, <<60, 65, 67>>, <<76, 45, 32>>, <<37, 36, 59>>,
    <<57, 34, 32>>, <<19, 43, 60>>, <<42, 67, 60>>, <<104, 23, 0>>, <<91, 9, 65>>,
    <<17, 89, 43>>, <<5, 65, 94>>, <<58, 6, 81>>, <<255, 0, 255>>, <<255, 0, 255>>,
    <<255, 0, 255>>, <<255, 0, 255>>, <<255, 0, 255>>, <<255, 0, 255>>,
    <<255, 0, 255>>, <<255, 0, 255>>, <<255, 0, 255>>, <<255, 0, 255>>,
    <<255, 0, 255>>, <<255, 0, 255>>, <<255, 0, 255>>, <<255, 0, 255>>,
    <<255, 0, 255>>, <<255, 0, 255>>, <<255, 0, 255>>, <<255, 0, 255>>,
    <<255, 0, 255>>, <<255, 0, 255>>, <<255, 0, 255>>
  >>

LIQUID_COLORS ==
  [water |-> <<9, 61, 191>>, lava |-> <<200, 60, 10>>, honey |-> <<180, 140, 20>>,
   shimmer |-> <<180, 120, 220>>]

BG_SKY == <<91, 172, 255>>
BG_UNDERGROUND == <<73, 58, 50>>
BG_CAVERN == <<52, 40, 32>>
BG_HELL == <<47, 18, 5>>

MOD_TILE_COLORS ==
  << <<160, 120, 120>>, <<120, 160, 120>>, <<120, 120, 160>>, <<160, 160, 100>>,
     <<100, 160, 160>>, <<160, 100, 160>>, <<140, 140, 120>>, <<120, 140, 140>> >>

LastVanillaTile == 419   \* tile.blockId > 419
HellDepth == 200         \* hellLayer = height - 200
Magenta == <<255, 0, 255>>
Opaque == 255

\* A variant of Floor that rounds up.
FloorUp(twice) == (twice + 1) \div 2

\* Math.floor of a double held as twice its value.
Floor(twice) == twice \div 2

\* A variant of BlockRule that looks in TILE_COLORS first, whatever the id.
BlockRuleTableFirst(id) ==
  IF id + 1 <= Len(TILE_COLORS) /\ TILE_COLORS[id + 1] # <<>> THEN TILE_COLORS[id + 1]
  ELSE MOD_TILE_COLORS[(id % Len(MOD_TILE_COLORS)) + 1]

\* tile.blockId > 419 ? MOD_TILE_COLORS[id % length] : (TILE_COLORS[id] ?? magenta)
BlockRule(id) ==
  IF id > LastVanillaTile THEN MOD_TILE_COLORS[(id % Len(MOD_TILE_COLORS)) + 1]
  ELSE IF id + 1 <= Len(TILE_COLORS) /\ TILE_COLORS[id + 1] # <<>> THEN TILE_COLORS[id + 1]
  ELSE Magenta

\* LIQUID_COLORS[tile.liquidType] ?? [9, 61, 191]
LiquidRule(kind) ==
  IF kind \in DOMAIN LIQUID_COLORS THEN LIQUID_COLORS[kind] ELSE <<9, 61, 191>>

\* WALL_COLORS[tile.wallId] ?? [60, 60, 60]
WallRule(id) ==
  IF id + 1 <= Len(WALL_COLORS) THEN WALL_COLORS[id + 1] ELSE <<60, 60, 60>>

\* The colour of a cell without block, liquid or wall, by its row.
BackgroundRule(row, surface, rockLayer, hellLayer) ==
  IF row < surface THEN BG_SKY
  ELSE IF row < rockLayer THEN BG_UNDERGROUND
  ELSE IF row < hellLayer THEN BG_CAVERN
  ELSE BG_HELL

\* A variant of Rule that tests the liquid before the block.
RuleLiquidFirst(tile) ==
  IF Has(tile, "liquidType") THEN "liquid"
  ELSE IF Has(tile, "blockId") THEN "block"
  ELSE IF Has(tile, "wallId") /\ tile["wallId"] > 0 THEN "wall"
  ELSE "background"

\* Which branch of the if chain colours the tile.  A liquidType that is set is
\* one of four non-empty strings, so it is truthy.
Rule(tile) ==
  IF Has(tile, "blockId") THEN "block"
  ELSE IF Has(tile, "liquidType") THEN "liquid"
  ELSE IF Has(tile, "wallId") /\ tile["wallId"] > 0 THEN "wall"
  ELSE "background"

\* The colour the chosen branch assigns.
RuleColor(rule, tile, row, h) ==
  CASE rule = "block" -> BlockRule(tile["blockId"])
    [] rule = "liquid" -> LiquidRule(tile["liquidType"])
    [] rule = "wall" -> WallRule(tile["wallId"])
    [] OTHER -> BackgroundRule(row, Floor(h.worldSurface), Floor(h.rockLayer),
                               h.maxTilesY - HellDepth)

CellColor(tile, row, h) == RuleColor(Rule(tile), tile, row, h)

\* img.data[i] = color[0]; ... img.data[i + 3] = 255, with i = (y * width + x) * 4
\* (img.data[k] is entry k + 1).
Painted(pixels, i, color) ==
  [k \in 1..Len(pixels) |->
     IF k = i + 1 THEN color[1] ELSE IF k = i + 2 THEN color[2]
     ELSE IF k = i + 3 THEN color[3] ELSE IF k = i + 4 THEN Opaque ELSE pixels[k]]

\* The writes of one round noted in the count of writes per pixel (an
\* observation, not program state): pixel p when it is one of the image, else a
\* stray write, which a typed array ignores.
Counted(image, p) ==
  IF p >= 0 /\ p < Len(image.writes)
  THEN [image EXCEPT !.writes[p + 1] = @ + 1]
  ELSE [image EXCEPT !.stray = @ + 1]

\* The for loops after the body ended at (xx, yy): y++, x++ and their tests.
NextPixel(xx, yy, h) ==
  IF yy + 1 < h.maxTilesY THEN [pc |-> "pixel", x |-> xx, y |-> yy + 1]
  ELSE IF xx + 1 < h.maxTilesX THEN [pc |-> "pixel", x |-> xx + 1, y |-> 0]
  ELSE [pc |-> "put", x |-> xx + 1, y |-> yy + 1]

Abs(n) == IF n < 0 THEN -n ELSE n

\* ctx.createImageData(width, height) (an IndexSizeError when either is 0; the
\* pixels start transparent black), then the loops are entered.
CreateImageData ==
  /\ pc = "convert"
  /\ IF data.header.maxTilesX = 0 \/ data.header.maxTilesY = 0
     THEN /\ pc' = "failed"
          /\ cursor' = [cursor EXCEPT !.thrown = "IndexSizeError"]
          /\ UNCHANGED <<img, x, y>>
     ELSE /\ img' = [width |-> Abs(data.header.maxTilesX),
                     height |-> Abs(data.header.maxTilesY),
                     data |-> Zeros(4 * Abs(data.header.maxTilesX)
                                      * Abs(data.header.maxTilesY)),
                     writes |-> Zeros(Abs(data.header.maxTilesX)
                                        * Abs(data.header.maxTilesY)),
                     stray |-> 0]
          /\ pc' = IF data.header.maxTilesX > 0 /\ data.header.maxTilesY > 0
                   THEN "pixel" ELSE "put"
          /\ x' = 0
          /\ y' = 0
          /\ UNCHANGED cursor
  /\ UNCHANGED <<buffer, options, RLE, world, data, grid, result, rec, last>>

\* The loop body with tile = world.tiles[x][y], then the loop increments.
PaintTile(tile) ==
  /\ img' = [Counted(img, y * data.header.maxTilesX + x)
                EXCEPT !.data = Painted(img.data, (y * data.header.maxTilesX + x) * 4,
                                        CellColor(tile, y, data.header))]
  /\ last' = [op |-> "pixel", x |-> x, y |-> y, tile |-> tile, rule |-> Rule(tile),
              color |-> CellColor(tile, y, data.header)]
  /\ pc' = NextPixel(x, y, data.header).pc
  /\ x' = NextPixel(x, y, data.header).x
  /\ y' = NextPixel(x, y, data.header).y
  /\ UNCHANGED cursor

\* One round of the inner for; reading a field of a cell that was never
\* assigned is a TypeError.
Pixel ==
  /\ pc = "pixel"
  /\ IF Has(data.tiles, x) /\ Has(data.tiles[x].at, y)
     THEN PaintTile(data.tiles[x].at[y])
     ELSE /\ pc' = "failed"
          /\ cursor' = [cursor EXCEPT !.thrown = "TypeError"]
          /\ UNCHANGED <<img, x, y, last>>
  /\ UNCHANGED <<buffer, options, RLE, world, data, grid, result, rec>>

\* ctx.putImageData(img, 0, 0)
PutImageData ==
  /\ pc = "put"
  /\ pc' = "converted"
  /\ result' = [returned |-> TRUE, value |-> img]
  /\ UNCHANGED <<buffer, options, cursor, RLE, world, data, grid, x, y, img, rec, last>>

(***************************************************************************)
(* The worlds the rasterizer specification starts from: what parse returns *)
(* for a file whose two sections agree on the dimensions, and for files    *)
(* whose header section gives other dimensions than the preamble (parse    *)
(* compares neither; the header's are 32-bit signed values).               *)
(***************************************************************************)
TallHeight == 202    \* rows of the tall world, which has a cavern band

RasterTiles ==
  { Empty,
    [blockId |-> 0], [blockId |-> 1], [blockId |-> 178], [blockId |-> 419],
    [blockId |-> 420], [blockId |-> 616], [blockId |-> 999], [blockId |-> 65535],
    [blockId |-> 0, liquidType |-> "lava", liquidAmount |-> 255],
    [blockId |-> 1, wallId |-> 5],
    [liquidType |-> "water", liquidAmount |-> 255],
    [liquidType |-> "honey", liquidAmount |-> 1, wallId |-> 5],
    [liquidType |-> "shimmer", liquidAmount |-> 0],
    [wallId |-> 0], [wallId |-> 5], [wallId |-> 366], [wallId |-> 367],
    [wireRed |-> TRUE] }

\* A width x height grid of bare tiles but for the tile t at (cx, cy).
GridWith(width, height, cx, cy, t) ==
  [xx \in 0..(width - 1) |->
     [length |-> height,
      at |-> [yy \in 0..(height - 1) |-> IF xx = cx /\ yy = cy THEN t ELSE Empty]]]

Parsed(width, height, surface, rockLayer, tiles) ==
  [header |-> [maxTilesX |-> width, maxTilesY |-> height, worldSurface |-> surface,
               rockLayer |-> rockLayer],
   tiles |-> tiles]

\* Small worlds with every depth from 0 to 2.5 and one tile that may not be
\* bare; tall worlds with a cavern band; a world without columns; worlds whose
\* header is wider, shorter or negative where the grid is 1 x 2.
RasterWorlds ==
  {Parsed(wh[1], wh[2], s, r, GridWith(wh[1], wh[2], c[1], c[2], t)) :
     wh \in {<<1, 2>>, <<2, 2>>}, s \in 0..5, r \in {0, 3, 4, 6},
     c \in {<<0, 0>>, <<0, 1>>}, t \in RasterTiles}
  \cup {Parsed(1, TallHeight, s, r, GridWith(1, TallHeight, 0, 1, t)) :
          s \in {0, 2}, r \in {2, 3}, t \in {Empty, [wallId |-> 5]}}
  \cup {Parsed(0, 2, 2, 4, Empty)}
  \cup {Parsed(wh[1], wh[2], s, 6, GridWith(1, 2, 0, 0, t)) :
          wh \in {<<2, 2>>, <<1, 1>>, <<-1, 2>>, <<1, -2>>}, s \in {0, 5},
          t \in {Empty, [blockId |-> 1]}}

InitRaster ==
  /\ buffer = <<>>
  /\ options = [ignoreBounds |-> FALSE]
  /\ cursor = NewCursor
  /\ RLE = 0
  /\ world = NoWorld
  /\ pc = "convert"
  /\ data \in RasterWorlds
  /\ grid = Empty
  /\ x = 0
  /\ y = 0
  /\ img = Empty
  /\ result = NoResult
  /\ rec = [decoded |-> 0]
  /\ last = [op |-> "new"]

NextRaster ==
  \/ CreateImageData
  \/ Pixel
  \/ PutImageData

SpecRaster == InitRaster /\ [][NextRaster]_vars
(***************************************************************************)
(* Properties.                                                             *)
(***************************************************************************)
\* The preamble pass has just ended: parse is at the section loop, or the pass
\* threw (world is still unassigned).
PreambleDone == pc = "header" \/ (pc = "failed" /\ world = NoWorld)

\* Some read of the pass reached past the end of the buffer.
PreambleFaulted ==
  \E i \in 1..Len(cursor.reads) : cursor.reads[i].at + cursor.reads[i].w > Len(buffer)

\* The identity token and the file-type tag, as they stand in the buffer.
IdentityOK ==
  /\ Len(buffer) >= 12
  /\ SubSeq(buffer, 5, 11) = Relogic
  /\ buffer[12] = WorldFileType

\* C1: the preamble pass ends in exactly one of three ways, decided in this
\* order: the format error when a read reached past the buffer or the magic
\* string or the file-type tag is wrong; else the unsupported-version error when
\* the version is below 194; else the preamble is returned.  The RangeError of
\* a read never leaves the pass.
C1_PreambleOutcome ==
  PreambleDone =>
    IF PreambleFaulted \/ ~IdentityOK
    THEN pc = "failed" /\ cursor.thrown = InvalidFileType
    ELSE IF Decode("Int32", SubSeq(buffer, 1, 4)) < MinVersion
         THEN pc = "failed" /\ cursor.thrown = VersionTooOld
         ELSE /\ pc = "header"
              /\ cursor.thrown = "none"
              /\ world.version = Decode("Int32", SubSeq(buffer, 1, 4))
              /\ world.version >= MinVersion

\* A buffer cut in the middle of the preamble was rejected with the format error.
C1_Witness ==
  /\ pc = "failed"
  /\ world = NoWorld
  /\ PreambleFaulted
  /\ Len(buffer) > 12
  /\ cursor.thrown = InvalidFileType

\* parse has returned a result that holds the tile grid.
TilesReturned == pc = "done" /\ Has(result.value, "tiles")

\* C2: a successful tile decode yields exactly width * height tiles: width
\* columns, each holding exactly the rows 0..height-1.
C2_GridExact ==
  TilesReturned =>
    /\ DOMAIN result.value["tiles"] = 0..(world.width - 1)
    /\ \A xx \in DOMAIN result.value["tiles"] :
         /\ result.value["tiles"][xx].length = world.height
         /\ DOMAIN result.value["tiles"][xx].at = 0..(world.height - 1)

\* C3: the run of a record is expanded into equal tiles below it, and over a
\* whole grid decode the number of records read is width * height minus the sum
\* of the run counts.
C3_RunLength ==
  /\ (pc \in {"cell", "return", "done"} /\ rec.decoded > 0 /\ rec.RLE > 0) =>
       \A k \in 1..rec.RLE :
         /\ Has(grid[rec.x].at, rec.y + k)
         /\ grid[rec.x].at[rec.y + k] = grid[rec.x].at[rec.y]
  /\ TilesReturned => rec.decoded = world.width * world.height - rec.runs

\* parse has returned a result that holds both sections.
BothReturned == TilesReturned /\ Has(result.value, "header")

RECURSIVE TileCount(_, _)
TileCount(g, xs) ==
  IF xs = {} THEN 0
  ELSE LET xx == CHOOSE e \in xs : TRUE
       IN Cardinality(DOMAIN g[xx].at) + TileCount(g, xs \ {xx})

\* C4: when parse returns both sections, the header's dimensions are the
\* preamble's, and their product is the number of tiles the grid decode made.
C4_DimensionsAgree ==
  BothReturned =>
    /\ result.value["header"]["maxTilesX"] = world.width
    /\ result.value["header"]["maxTilesY"] = world.height
    /\ result.value["header"]["maxTilesX"] * result.value["header"]["maxTilesY"]
         = TileCount(result.value["tiles"], DOMAIN result.value["tiles"])

\* C5: in a decoded header every version-gated field is absent when the
\* version is below the field's threshold (no default stands in for it) and
\* present when the version is at or above it.
C5_VersionGating ==
  Has(data, "header") =>
    \A i \in 1..Len(HeaderFields) :
      FieldGate(HeaderFields[i]) \in {"ge", "geElseFalse"} =>
        (Has(data["header"], FieldName(HeaderFields[i]))
           <=> world.version >= FieldThreshold(HeaderFields[i]))

\* The byte a read of the log returned: at an offset that is not a number the
\* DataView reads index 0.
ByteAt(read) == IF read.nan THEN buffer[1] ELSE buffer[read.at + 1]

\* The length of the flag chain that starts with the i-th read of the log, as
\* the bytes in the buffer give it.
ChainLength(reads) ==
  IF ByteAt(reads[1]) % 2 = 0 THEN 1
  ELSE IF ByteAt([reads[1] EXCEPT !.at = @ + 1]) % 2 = 0 THEN 2
  ELSE IF ByteAt([reads[1] EXCEPT !.at = @ + 2]) % 2 = 0 THEN 3
  ELSE 4

\* C6: a tile record starts with its flag bytes: byte 1 always, byte 2 iff bit 0
\* of byte 1 is set (whatever its other bits), byte 3 iff byte 2 was read with
\* bit 0 set, byte 4 iff byte 3 was read with bit 0 set; each is read once, in
\* one-byte reads at consecutive offsets, before anything else of the record.
C6_FlagChain ==
  (pc \in {"cell", "fill", "return"} /\ rec.decoded > 0) =>
    /\ Len(rec.flags) \in 1..4
    /\ Len(rec.flags) = ChainLength(rec.reads)
    /\ Len(rec.reads) >= Len(rec.flags)
    /\ \A i \in 1..Len(rec.flags) :
         /\ rec.reads[i].w = 1
         /\ rec.reads[i].nan = rec.reads[1].nan
         /\ rec.reads[i].at = (IF rec.reads[1].nan THEN 0 ELSE rec.reads[1].at + i - 1)
         /\ rec.flags[i] = ByteAt(rec.reads[i])

\* A record whose byte 1 has bit 0 and other bits set was decoded with all four
\* flag bytes.
C6_Witness ==
  /\ pc \in {"cell", "fill", "return"}
  /\ rec.decoded > 0
  /\ Len(rec.flags) = 4
  /\ rec.flags[1] > 1
  /\ rec.flags[1] % 2 = 1

\* The background colour of row r, written out.
Backdrop(r) ==
  IF r < data.header.worldSurface \div 2 THEN BG_SKY
  ELSE IF r < data.header.rockLayer \div 2 THEN BG_UNDERGROUND
  ELSE IF r < data.header.maxTilesY - HellDepth THEN BG_CAVERN
  ELSE BG_HELL

\* The four bytes of the image that belong to the cell (xx, yy).
PixelOf(xx, yy) ==
  SubSeq(img.data, (yy * data.header.maxTilesX + xx) * 4 + 1,
         (yy * data.header.maxTilesX + xx) * 4 + 4)

\* C7: the pixel of a cell is the colour of the first rule that applies, in the
\* order block, liquid, wall, background, and of that rule alone: a block id
\* (0 included) wins over a liquid, and wall id 0 without block or liquid is
\* background.
C7_Precedence ==
  last.op = "pixel" =>
    /\ last.color =
         IF Has(last.tile, "blockId") THEN BlockRule(last.tile["blockId"])
         ELSE IF Has(last.tile, "liquidType") THEN LIQUID_COLORS[last.tile["liquidType"]]
         ELSE IF Has(last.tile, "wallId") /\ last.tile["wallId"] > 0
              THEN WallRule(last.tile["wallId"])
         ELSE Backdrop(last.y)
    /\ last.rule =
         IF Has(last.tile, "blockId") THEN "block"
         ELSE IF Has(last.tile, "liquidType") THEN "liquid"
         ELSE IF Has(last.tile, "wallId") /\ last.tile["wallId"] > 0 THEN "wall"
         ELSE "background"
    /\ PixelOf(last.x, last.y) = last.color \o <<Opaque>>

\* A cell with block id 0 and lava was painted with the colour of block 0.
C7_Witness ==
  /\ last.op = "pixel"
  /\ Has(last.tile, "blockId")
  /\ last.tile["blockId"] = 0
  /\ Has(last.tile, "liquidType")
  /\ last.color = TILE_COLORS[1]
  /\ last.color # LIQUID_COLORS[last.tile["liquidType"]]

\* C8: a block id above 419 is painted with entry (id mod 8) of the cyclic
\* palette, never from the block table and never magenta; an id up to 419 is
\* painted from the block table, or magenta when the table has no such key.
C8_BlockColor ==
  (last.op = "pixel" /\ Has(last.tile, "blockId")) =>
    IF last.tile["blockId"] > LastVanillaTile
    THEN /\ last.color = MOD_TILE_COLORS[(last.tile["blockId"] % 8) + 1]
         /\ last.color # Magenta
    ELSE IF last.tile["blockId"] + 1 <= Len(TILE_COLORS)
            /\ TILE_COLORS[last.tile["blockId"] + 1] # <<>>
         THEN last.color = TILE_COLORS[last.tile["blockId"] + 1]
         ELSE last.color = Magenta

\* Block 616, which the block table has a key for, was painted from the palette.
C8_Witness ==
  /\ last.op = "pixel"
  /\ Has(last.tile, "blockId")
  /\ last.tile["blockId"] = 616
  /\ last.color = MOD_TILE_COLORS[1]
  /\ TILE_COLORS[617] # <<>>
  /\ last.color # TILE_COLORS[617]

\* A cell without block, liquid or wall.
Bare(tile) ==
  /\ ~Has(tile, "blockId")
  /\ ~Has(tile, "liquidType")
  /\ ~(Has(tile, "wallId") /\ tile["wallId"] > 0)

AllBare ==
  \A xx \in DOMAIN data.tiles : \A yy \in DOMAIN data.tiles[xx].at :
    Bare(data.tiles[xx].at[yy])

\* Every pixel of the image is the sky colour.
AllSky ==
  \A k \in 1..Len(img.writes) :
    SubSeq(img.data, 4 * k - 3, 4 * k) = BG_SKY \o <<Opaque>>

\* Every pixel the rasterizer painted is the sky colour.
PaintedSky ==
  \A k \in 1..Len(img.writes) :
    img.writes[k] > 0 => SubSeq(img.data, 4 * k - 3, 4 * k) = BG_SKY \o <<Opaque>>

\* A bare cell got the background colour of its row.
BareByRow == (last.op = "pixel" /\ Bare(last.tile)) => last.color = Backdrop(last.y)

WidthOf(op) ==
  CASE op \in {"readUInt8", "readBoolean"} -> 1
    [] op \in {"readInt16", "readUInt16"} -> 2
    [] op \in {"readInt32", "readUInt32", "readFloat32"} -> 4
    [] op = "readFloat64" -> 8

IsRead(op) ==
  op \in {"readUInt8", "readInt16", "readUInt16", "readInt32", "readUInt32",
          "readFloat32", "readFloat64", "readBoolean"}

\* C10: a cursor read adds the width of its type to the offset, whether it
\* returns a value, the lenient zero or throws; an offset that is not a number
\* stays so.
C10_ReadAdvances ==
  IsRead(last.op) =>
    /\ last.outcome \in {"ok", "zero", "throw"}
    /\ cursor.nan = last.beforeNaN
    /\ ~cursor.nan => cursor.offset = last.before + WidthOf(last.op)

\* A readInt32 that threw left the offset 4 further.
C10_Witness ==
  /\ last.op = "readInt32"
  /\ last.outcome = "throw"
  /\ ~cursor.nan
  /\ cursor.offset = last.before + 4

\* The bytes of the read last made are not all inside the buffer.
OutOfBuffer == last.before < 0 \/ last.before + WidthOf(last.op) > Len(buffer)

\* C11: a read whose bytes are not all inside the buffer raises an error in
\* strict mode and returns the zero of its type, without raising, in lenient
\* mode, at every offset the cursor can hold.
C11_OutOfBounds ==
  (IsRead(last.op) /\ ~last.beforeNaN /\ OutOfBuffer) =>
    IF options.ignoreBounds
    THEN last.outcome = "zero" /\ last.v = (IF last.op = "readBoolean" THEN FALSE ELSE 0)
    ELSE last.outcome = "throw"

\* Some read in the log of the current pass has bytes outside the buffer.
Faulted ==
  \E i \in 1..Len(cursor.reads) :
    /\ ~cursor.reads[i].nan
    /\ \/ cursor.reads[i].at < 0
       \/ cursor.reads[i].at + cursor.reads[i].w > Len(buffer)

\* C12: a parser run through parse without an ignoreBounds option is in strict
\* mode in every pass: the option is never set, and a read of the preamble,
\* header or tile pass whose bytes are outside the buffer ends the parse with an
\* error instead of yielding a zero.
C12_StrictByDefault ==
  /\ ~options.ignoreBounds
  /\ Faulted => /\ pc = "failed"
                /\ cursor.thrown \in {"RangeError", InvalidFileType}
                /\ ~result.returned

\* A read of the header pass ran past the end of the file and the parse failed
\* with the RangeError.
C12_Witness ==
  /\ pc = "failed"
  /\ world # NoWorld
  /\ ~Has(data, "header")
  /\ Includes(options.sections, "header")
  /\ Faulted
  /\ cursor.thrown = "RangeError"

\* The offset the reads of the current pass reached: the end of the last read
\* of the log.
ReadsEnd == cursor.reads[Len(cursor.reads)].at + cursor.reads[Len(cursor.reads)].w

\* C13: when parseNecessaryData has returned a preamble the offset is 0,
\* however many bytes its reads consumed.
C13_PreambleResets ==
  pc = "header" => (~cursor.nan /\ cursor.offset = 0 /\ world # NoWorld)

\* The preamble was returned after its reads had consumed bytes, and the offset
\* is 0.
C13_Witness ==
  /\ pc = "header"
  /\ world # NoWorld
  /\ Len(cursor.reads) > 0
  /\ ReadsEnd > 12
  /\ cursor.offset = 0

\* C14: the values handed to the progress callback over one parse are strictly
\* increasing integers, all of them in 0..100.
C14_ProgressRange ==
  \A i \in 1..Len(cursor.calls) :
    /\ cursor.calls[i] \in 0..100
    /\ i > 1 => cursor.calls[i] > cursor.calls[i - 1]

\* The cursor c less the bookkeeping of the accessor parse installs: what the
\* same parser holds when no progress callback was given.
Unhooked(c) ==
  [c EXCEPT !.hooked = FALSE, !.onePercentSize = 0, !.nextPercentSize = 0,
            !.percent = 0, !.calls = <<>>]

\* The results a and b of one pass agree: the same value, the same exception
\* if any, the same reads in the same order and the same offset.
SamePreamble(a, b) == Unhooked(a.c) = b.c /\ a.world = b.world
SameHeader(a, b) == Unhooked(a.c) = b.c /\ a.v = b.v
SameTile(a, b) == Unhooked(a.c) = b.c /\ a.tile = b.tile /\ a.RLE = b.RLE /\ a.ran = b.ran

\* C15: with a progress callback parse takes, from every state it reaches, the
\* step it takes without one from the same state: each pass (the preamble, the
\* header, each tile record) ends with the same value or the same failure after
\* the same reads at the same offsets, the steps in between do not read the
\* cursor, and so the two parses end alike.
C15_ProgressAdvisory ==
  cursor.hooked =>
    /\ pc = "necessary" =>
         SamePreamble(parseNecessaryData([cursor EXCEPT !.reads = <<>>]),
                      parseNecessaryData(Unhooked([cursor EXCEPT !.reads = <<>>])))
    /\ (pc = "header" /\ Includes(options.sections, "header")) =>
         SameHeader(parseHeader(Seek(Pointer(1)), world.version),
                    parseHeader(Unhooked(Seek(Pointer(1))), world.version))
    /\ pc = "tiles" => Unhooked(Seek(Pointer(2))).offset = Seek(Pointer(2)).offset
    /\ pc = "cell" =>
         SameTile(parseTileData([cursor EXCEPT !.reads = <<>>], world.importants, RLE),
                  parseTileData(Unhooked([cursor EXCEPT !.reads = <<>>]),
                                world.importants, RLE))

\* A parse that reported progress returned both sections.
C15_Witness ==
  /\ pc = "done"
  /\ cursor.hooked
  /\ Len(cursor.calls) > 20
  /\ Has(result.value, "header")
  /\ Has(result.value, "tiles")

\* The section names parse was asked for that it knows, in lower case.
Requested == {n \in {"header", "tiles"} : Includes(options.sections, n)}

\* C16: the preamble is validated before any section is decoded; the header
\* decode starts at byte offset pointers[1] and the tile decode at byte offset
\* pointers[2]; the result holds exactly the requested sections.
C16_SectionIndependence ==
  /\ pc \in {"header", "tiles", "cell", "fill", "return", "done"} => world # NoWorld
  /\ (pc = "tiles" /\ Has(data, "header")) =>
       /\ Len(world.pointers) >= 2
       /\ ~cursor.reads[1].nan
       /\ cursor.reads[1].at = world.pointers[2]
  /\ (pc \in {"cell", "fill", "return"} /\ rec.decoded = 1) =>
       /\ Len(world.pointers) >= 3
       /\ ~rec.reads[1].nan
       /\ rec.reads[1].at = world.pointers[3]
  /\ pc = "done" => DOMAIN result.value = Requested

\* C17: a read that faults in the header pass or the tile pass ends parse with
\* an error, and a parse that ended with an error stays ended and returns no
\* result: neither the header already decoded nor the grid filled so far
\* reaches the caller.
C17_NoPartialResult ==
  /\ [](world # NoWorld /\ Faulted => pc = "failed" /\ ~result.returned)
  /\ [][pc = "failed" => pc' = "failed" /\ result' = NoResult]_vars

\* The tile pass faulted after the header was decoded and a cell was filled;
\* nothing was returned.
C17_Witness ==
  /\ pc = "failed"
  /\ Has(data, "header")
  /\ Has(grid, 0)
  /\ Has(grid[0].at, 0)
  /\ Faulted
  /\ ~result.returned

\* The byte a read at offset o returns when it returns: the byte of the buffer,
\* or the lenient 0 past its end.
ByteAtOffset(o) == IF o >= 0 /\ o < Len(buffer) THEN buffer[o + 1] ELSE 0

\* The k-th byte (from 0) the call last made read.
ByteRead(k) == IF last.beforeNaN THEN buffer[1] ELSE ByteAtOffset(last.before + k)

\* C18: parseBitsByte(totalBits) consumes ceil(totalBits / 8) bytes, none when
\* totalBits <= 0, and returns totalBits booleans of which boolean i is bit
\* i mod 8, counted from the least significant, of byte floor(i / 8) it read.
C18_BitFlags ==
  (last.op = "parseBitsByte" /\ last.outcome = "ok") =>
    /\ ~last.beforeNaN =>
         cursor.offset - last.before
           = (IF last.args[1] > 0 THEN (last.args[1] + 7) \div 8 ELSE 0)
    /\ Len(last.v) = (IF last.args[1] > 0 THEN last.args[1] ELSE 0)
    /\ \A i \in 0..(last.args[1] - 1) :
         last.v[i + 1] = ((ByteRead(i \div 8) \div (2 ^ (i % 8))) % 2 = 1)

\* Nine bits were unpacked from two bytes of the buffer, with a set and a clear
\* bit among those of the first byte and the ninth bit set.
C18_Witness ==
  /\ last.op = "parseBitsByte"
  /\ last.outcome = "ok"
  /\ ~options.ignoreBounds
  /\ last.args = <<9>>
  /\ cursor.offset = last.before + 2
  /\ last.v[1] # last.v[2]
  /\ last.v[9]

\* The number of bytes of the variable-length integer that starts at offset o:
\* up to and including the first byte whose high bit is clear.
RECURSIVE PrefixLength(_)
PrefixLength(o) == IF ByteAtOffset(o) < 128 THEN 1 ELSE 1 + PrefixLength(o + 1)

\* n is the unsigned value of the variable-length integer that starts at
\* offset o: 7 bits a byte, the least significant group first.
RECURSIVE IsVarint(_, _)
IsVarint(n, o) ==
  IF ByteAtOffset(o) < 128 THEN n = ByteAtOffset(o)
  ELSE n >= 0 /\ n % 128 = ByteAtOffset(o) - 128 /\ IsVarint(n \div 128, o + 1)

\* C19: readString() reads the length as an unsigned variable-length integer
\* (7 bits a byte, least significant group first, up to the first byte with a
\* clear high bit) and then consumes exactly that many bytes; readString(n)
\* consumes exactly n bytes and no length prefix.
C19_StringLength ==
  (last.op = "readString" /\ last.outcome = "ok" /\ ~last.beforeNaN) =>
    IF last.args = <<>>
    THEN IsVarint(cursor.offset - last.before - PrefixLength(last.before), last.before)
    ELSE cursor.offset - last.before = last.args[1]

\* C20: the rasterizer writes every pixel of the image buffer exactly once,
\* the pixel of cell (x, y) at index (y * width + x) * 4, each with alpha 255,
\* and writes no pixel outside the buffer.
C20_EveryPixelOnce ==
  /\ img # Empty =>
       /\ img.stray = 0
       /\ \A k \in 1..Len(img.writes) : img.writes[k] <= 1
  /\ (last.op = "pixel" /\ pc # "failed") =>
       /\ img.writes[last.y * data.header.maxTilesX + last.x + 1] = 1
       /\ img.data[(last.y * data.header.maxTilesX + last.x) * 4 + 4] = Opaque
  /\ pc \in {"put", "converted"} =>
       \A k \in 1..Len(img.writes) : img.writes[k] = 1 /\ img.data[4 * k] = Opaque

\* The tile the last record decoded was assigned to.
LastTile == grid[rec.x].at[rec.y]
RecordDecoded == pc \in {"cell", "fill", "return"} /\ rec.decoded > 0

\* C21: whenever flag byte 3 of a record was read with bit 7 set, the tile
\* decoded has the liquid kind "shimmer", whatever the two liquid bits of flag
\* byte 1 are, 0 included.
C21_ShimmerOverride ==
  (RecordDecoded /\ Len(rec.flags) >= 3 /\ Bit(rec.flags[3], 7) = 1) =>
    (Has(LastTile, "liquidType") /\ LastTile["liquidType"] = "shimmer")

\* In the log of the last record: the read of the 8-bit wall id, which follows
\* the flag bytes and the block part, and the last read before the run count.
WallRead ==
  Len(rec.flags) + 1
    + (IF Bit(rec.flags[1], 1) = 1
       THEN 1 + (IF Has(LastTile, "frameX") THEN 2 ELSE 0)
              + (IF Has(LastTile, "blockColor") THEN 1 ELSE 0)
       ELSE 0)
HighRead == Len(rec.reads) - (IF rec.ran THEN 1 ELSE 0)

\* C22: in a record whose flag byte 3 has bit 6 set, a record with the wall bit
\* (flag byte 1 bit 2) has one more byte read before the run count and its wall
\* id is that byte * 256 + the 8-bit id read before; a record without the wall
\* bit ends with no wall id.
C22_WallHighByte ==
  (RecordDecoded /\ Len(rec.flags) >= 3 /\ Bit(rec.flags[3], 6) = 1) =>
    IF Bit(rec.flags[1], 2) = 1
    THEN /\ HighRead > WallRead
         /\ rec.reads[HighRead].w = 1
         /\ Has(LastTile, "wallId")
         /\ LastTile["wallId"] =
              ByteAt(rec.reads[HighRead]) * 256 + ByteAt(rec.reads[WallRead])
    ELSE ~Has(LastTile, "wallId")

\* The 16-bit value a read of the log took from the buffer, unsigned and signed.
WordAt(o) == buffer[o + 1] + 256 * buffer[o + 2]
Word(read) == WordAt(IF read.nan THEN 0 ELSE read.at)
SignedWord(read) == IF Word(read) >= 32768 THEN Word(read) - 65536 ELSE Word(read)
\* The read r of the log starts where the read before it ended.
Follows(r) ==
  rec.reads[r].w = 2 /\
  (rec.reads[r].nan \/ rec.reads[r].at = rec.reads[r - 1].at + rec.reads[r - 1].w)
\* In the log of the last record, the read of the block id.
IdRead == Len(rec.flags) + 1

\* C23: a record with flag byte 1 bit 1 has a block id, read as 16 bits if bit 5
\* is set and as 8 bits otherwise; the signed 16-bit frame X and frame Y are read
\* after it iff the preamble marks that id important, and are absent from the
\* tile otherwise; for block 144 frame Y is 0 though its two bytes are read.
C23_BlockDecode ==
  RecordDecoded =>
    IF Bit(rec.flags[1], 1) = 0 THEN ~Has(LastTile, "blockId")
    ELSE /\ Has(LastTile, "blockId")
         /\ IF Bit(rec.flags[1], 5) = 1
            THEN rec.reads[IdRead].w = 2 /\ LastTile["blockId"] = Word(rec.reads[IdRead])
            ELSE rec.reads[IdRead].w = 1 /\ LastTile["blockId"] = ByteAt(rec.reads[IdRead])
         /\ IF LastTile["blockId"] < Len(world.importants)
               /\ world.importants[LastTile["blockId"] + 1]
            THEN /\ Len(rec.reads) >= IdRead + 2
                 /\ Follows(IdRead + 1)
                 /\ Follows(IdRead + 2)
                 /\ Has(LastTile, "frameX") /\ Has(LastTile, "frameY")
                 /\ LastTile["frameX"] = SignedWord(rec.reads[IdRead + 1])
                 /\ LastTile["frameY"] =
                      (IF LastTile["blockId"] = 144 THEN 0
                       ELSE SignedWord(rec.reads[IdRead + 2]))
            ELSE ~Has(LastTile, "frameX") /\ ~Has(LastTile, "frameY")

\* A record with the 16-bit block id 144 whose frame Y bytes in the stream are
\* not 0 was decoded.
C23_Witness ==
  /\ RecordDecoded
  /\ Bit(rec.flags[1], 1) = 1 /\ Bit(rec.flags[1], 5) = 1
  /\ LastTile["blockId"] = 144
  /\ SignedWord(rec.reads[IdRead + 2]) # 0
  /\ LastTile["frameY"] = 0

\* C24: the pending run count is 0 when the grid decode starts and each time
\* the decode of a record begins: the fill loop has consumed the count of the
\* record before, so no count carries over to a later record or column.
C24_RunConsumed == (pc = "cell") => (RLE = 0)

\* The signed 32-bit value at byte offset o of the buffer, and the pointer
\* count: the signed 16-bit value at offset 24, after the version, "relogic",
\* the file type and 12 bytes.
Int32At(o) ==
  WordAt(o) + 65536 * buffer[o + 3]
    + 16777216 * (IF buffer[o + 4] >= 128 THEN buffer[o + 4] - 256 ELSE buffer[o + 4])
PointerCount == IF WordAt(24) >= 32768 THEN WordAt(24) - 65536 ELSE WordAt(24)

\* C25: the pointer table of a returned preamble has N + 1 entries, N being the
\* 2-byte count of the stream (one entry for N <= 0): entry 0 is 0 and entry i
\* is the i-th 4-byte pointer of the stream; the height is read before the
\* width, the two being the last reads of the pass.
C25_PointerTable ==
  (pc = "header") =>
    /\ Len(world.pointers) = Max(PointerCount, 0) + 1
    /\ world.pointers[1] = 0
    /\ \A i \in 1..PointerCount : world.pointers[i + 1] = Int32At(26 + 4 * (i - 1))
    /\ Len(cursor.reads) >= 2
    /\ cursor.reads[Len(cursor.reads)].at = cursor.reads[Len(cursor.reads) - 1].at + 4
    /\ world.height = Int32At(cursor.reads[Len(cursor.reads) - 1].at)
    /\ world.width = Int32At(cursor.reads[Len(cursor.reads)].at)

\* A preamble with three pointers, and a height that differs from the width,
\* was returned.
C25_Witness ==
  /\ pc = "header"
  /\ PointerCount = 3
  /\ Len(world.pointers) = 4
  /\ world.pointers[2] > 0
  /\ world.height # world.width

\* parse is running: it has neither returned nor thrown, and is not in a loop
\* that never ends.  A step of Next is possible exactly in these states.
Running == pc \notin {"done", "failed", "hung"}

\* C26: in strict mode parse on a finite buffer eventually finishes, returning
\* a result or raising an error, whatever the bytes are: parse is never in a
\* state where it has not finished and no step leads on.
C26_Terminates == pc \in {"done", "failed"} \/ Running


====
